---- MODULE Spec2Model ----
(***************************************************************************)
(* Model of apilinker/core/connector.py (class ApiConnector): the SSE      *)
(* engine (parse_sse_event, stream_sse, consume_sse option resolution).    *)
(*                                                                         *)
(* Conventions                                                             *)
(*  - a Python string is a sequence of one-character strings, so that      *)
(*    startswith / split / strip / int() are computed, not assumed;        *)
(*    "CR" stands for the carriage return and "NUL" for the NUL character. *)
(*  - an Optional value is a record [set, val]; set = FALSE is None (or a  *)
(*    key absent from a dict, or an argument the caller did not pass).     *)
(*  - durations are kept in milliseconds: a delay given in seconds is      *)
(*    multiplied by MsPerSecond, a retry hint of N ms divided by 1000 to   *)
(*    seconds is N ms.                                                     *)
(***************************************************************************)
EXTENDS Integers, Sequences, FiniteSets, TLC

(***************************************************************************)
(* Bounds of the model.                                                    *)
(***************************************************************************)
MaxLines == 3
MaxConns == 2
MaxEvents == 5
MaxPages == 3
MaxRetryCount == 3
MaxItems == 3
MaxCalls == 3

(***************************************************************************)
(* Program constants.                                                      *)
(***************************************************************************)
MsPerSecond == 1000
BodyLimit == 1000
PlaceholderLen == 30
DefaultTimeout == 30
DefaultChunkSize == 50
DefaultBufferSize == 500

(***************************************************************************)
(* Optional values.                                                        *)
(***************************************************************************)
NoneInt == [set |-> FALSE, val |-> 0]
SomeInt(n) == [set |-> TRUE, val |-> n]
NoneBool == [set |-> FALSE, val |-> FALSE]
SomeBool(b) == [set |-> TRUE, val |-> b]
NoneStr == [set |-> FALSE, val |-> <<>>]
SomeStr(s) == [set |-> TRUE, val |-> s]

Max(a, b) == IF a >= b THEN a ELSE b
Min(a, b) == IF a <= b THEN a ELSE b

(***************************************************************************)
(* Strings as character sequences.                                         *)
(***************************************************************************)
Digits == {"0", "1", "2", "3", "4", "5", "6", "7", "8", "9"}

DigitVal(c) ==
    CASE c = "0" -> 0 [] c = "1" -> 1 [] c = "2" -> 2 [] c = "3" -> 3
      [] c = "4" -> 4 [] c = "5" -> 5 [] c = "6" -> 6 [] c = "7" -> 7
      [] c = "8" -> 8 [] c = "9" -> 9

\* str.startswith(c) for a one-character prefix
StartsWith(s, c) == Len(s) > 0 /\ s[1] = c

\* index of the first occurrence of c in s, 0 when absent ("c in s" is > 0)
IndexOf(s, c) ==
    IF \E i \in 1..Len(s) : s[i] = c
    THEN CHOOSE i \in 1..Len(s) : s[i] = c /\ \A j \in 1..(i - 1) : s[j] # c
    ELSE 0

\* s[1:] in Python
Tail1(s) == SubSeq(s, 2, Len(s))

\* raw_line.rstrip("\r"): every trailing carriage return is removed
RECURSIVE RstripCR(_)
RstripCR(s) ==
    IF Len(s) > 0 /\ s[Len(s)] = "CR" THEN RstripCR(SubSeq(s, 1, Len(s) - 1)) ELSE s

\* str.strip() restricted to the blank character
RECURSIVE StripSpaces(_)
StripSpaces(s) ==
    IF Len(s) > 0 /\ s[1] = " " THEN StripSpaces(Tail1(s))
    ELSE IF Len(s) > 0 /\ s[Len(s)] = " " THEN StripSpaces(SubSeq(s, 1, Len(s) - 1))
    ELSE s

RECURSIVE DigitsValue(_, _)
DigitsValue(s, acc) ==
    IF Len(s) = 0 THEN acc ELSE DigitsValue(Tail1(s), acc * 10 + DigitVal(s[1]))

AllDigits(s) == Len(s) > 0 /\ \A i \in 1..Len(s) : s[i] \in Digits

\* int(value): surrounding blanks stripped, optional sign, decimal digits;
\* anything else raises ValueError (ok = FALSE)
PyInt(value) ==
    LET t == StripSpaces(value)
        signed == Len(t) > 0 /\ t[1] \in {"-", "+"}
        body == IF signed THEN Tail1(t) ELSE t
    IN IF AllDigits(body)
       THEN [ok |-> TRUE,
             val |-> IF signed /\ t[1] = "-" THEN 0 - DigitsValue(body, 0)
                     ELSE DigitsValue(body, 0)]
       ELSE [ok |-> FALSE, val |-> 0]

\* "\n".join(data_lines)
RECURSIVE JoinNL(_)
JoinNL(ls) ==
    IF Len(ls) = 0 THEN <<>>
    ELSE IF Len(ls) = 1 THEN ls[1]
    ELSE ls[1] \o <<"NL">> \o JoinNL(Tail(ls))

\* json.loads restricted to the JSON texts the model's payloads can form:
\* a number (optional minus, digits, no leading zero) surrounded by blanks.
JsonLoads(raw) ==
    LET t == StripSpaces(raw)
        neg == Len(t) > 0 /\ t[1] = "-"
        body == IF neg THEN Tail1(t) ELSE t
    IN IF AllDigits(body) /\ (Len(body) = 1 \/ body[1] # "0")
       THEN [ok |-> TRUE,
             val |-> IF neg THEN 0 - DigitsValue(body, 0) ELSE DigitsValue(body, 0)]
       ELSE [ok |-> FALSE, val |-> 0]

\* mutant: the payload is never decoded
decode_sse_data_NeverJson(raw_data, decode_json) ==
    [kind |-> "str", str |-> raw_data, num |-> 0]

\* _decode_sse_data: the decoded payload, or the raw string as a fallback
decode_sse_data(raw_data, decode_json) ==
    IF ~decode_json THEN [kind |-> "str", str |-> raw_data, num |-> 0]
    ELSE IF StripSpaces(raw_data) = <<>> THEN [kind |-> "str", str |-> raw_data, num |-> 0]
    ELSE IF JsonLoads(raw_data).ok
         THEN [kind |-> "json", str |-> <<>>, num |-> JsonLoads(raw_data).val]
         ELSE [kind |-> "str", str |-> raw_data, num |-> 0]

(***************************************************************************)
(* _parse_sse_event                                                        *)
(***************************************************************************)
F_event == <<"e", "v", "e", "n", "t">>
F_data == <<"d", "a", "t", "a">>
F_id == <<"i", "d">>
F_retry == <<"r", "e", "t", "r", "y">>
MessageName == <<"m", "e", "s", "s", "a", "g", "e">>

\* field, value = line.split(":", 1), one leading blank of the value removed;
\* a line without a colon is a field with an empty value
SplitField(line) ==
    LET k == IndexOf(line, ":")
        v == SubSeq(line, k + 1, Len(line))
    IN IF k > 0
       THEN [field |-> SubSeq(line, 1, k - 1),
             value |-> IF StartsWith(v, " ") THEN Tail1(v) ELSE v]
       ELSE [field |-> line, value |-> <<>>]

ParseInit ==
    [event_id |-> NoneStr, event_name |-> MessageName, data_lines |-> <<>>,
     retry_ms |-> NoneInt]

\* mutant: an id is taken whatever it contains, a retry whenever it is a number
ParseLine_Unchecked(acc, line) ==
    LET fv == SplitField(line) IN
    IF StartsWith(line, ":") THEN acc
    ELSE IF fv.field = F_event
    THEN [acc EXCEPT !.event_name = IF fv.value = <<>> THEN MessageName ELSE fv.value]
    ELSE IF fv.field = F_data THEN [acc EXCEPT !.data_lines = Append(@, fv.value)]
    ELSE IF fv.field = F_id THEN [acc EXCEPT !.event_id = SomeStr(fv.value)]
    ELSE IF fv.field = F_retry /\ PyInt(fv.value).ok
    THEN [acc EXCEPT !.retry_ms = SomeInt(PyInt(fv.value).val)]
    ELSE acc

\* the body of the loop "for line in raw_lines" for one line
ParseLine(acc, line) ==
    IF StartsWith(line, ":") THEN acc
    ELSE LET fv == SplitField(line) IN
         IF fv.field = F_event
         THEN [acc EXCEPT !.event_name = IF fv.value = <<>> THEN MessageName ELSE fv.value]
         ELSE IF fv.field = F_data
         THEN [acc EXCEPT !.data_lines = Append(@, fv.value)]
         ELSE IF fv.field = F_id
         THEN IF IndexOf(fv.value, "NUL") = 0
              THEN [acc EXCEPT !.event_id = SomeStr(fv.value)]
              ELSE acc
         ELSE IF fv.field = F_retry
         THEN IF PyInt(fv.value).ok /\ PyInt(fv.value).val >= 0
              THEN [acc EXCEPT !.retry_ms = SomeInt(PyInt(fv.value).val)]
              ELSE acc
         ELSE acc

RECURSIVE ParseLines(_, _)
ParseLines(acc, lines) ==
    IF Len(lines) = 0 THEN acc ELSE ParseLines(ParseLine(acc, lines[1]), Tail(lines))

NoData == [kind |-> "none", str |-> <<>>, num |-> 0]

\* the parsed event (some = TRUE) or None (some = FALSE)
parse_sse_event(raw_lines, decode_json) ==
    LET acc == ParseLines(ParseInit, raw_lines)
        has_data == Len(acc.data_lines) > 0
        raw_data == JoinNL(acc.data_lines)
    IN IF Len(raw_lines) = 0 THEN [some |-> FALSE]
       ELSE IF ~has_data /\ ~acc.retry_ms.set /\ ~acc.event_id.set THEN [some |-> FALSE]
       ELSE [some |-> TRUE,
             ev |-> [id |-> acc.event_id,
                     event |-> acc.event_name,
                     data |-> IF has_data THEN decode_sse_data(raw_data, decode_json)
                              ELSE NoData,
                     retry |-> acc.retry_ms,
                     raw_data |-> raw_data,
                     has_data |-> has_data]]

(***************************************************************************)
(* _categorize_error and _raise_sse_error.  An exception is a record       *)
(* [kind, status, body_len, body_readable]: kind "timeout" is an           *)
(* httpx.TimeoutException, "transport" any other httpx.TransportError or   *)
(* RequestError, "http" the HTTPStatusError of raise_for_status (the only  *)
(* kind with a response attribute), "other" any other Exception.           *)
(***************************************************************************)
categorize_error(exc) ==
    IF exc.kind = "timeout" THEN [category |-> "TIMEOUT", status_code |-> SomeInt(0)]
    ELSE IF exc.kind = "transport" THEN [category |-> "NETWORK", status_code |-> SomeInt(0)]
    ELSE IF exc.kind = "http"
    THEN [category |->
              IF exc.status = 401 \/ exc.status = 403 THEN "AUTHENTICATION"
              ELSE IF exc.status = 422 \/ exc.status = 400 THEN "VALIDATION"
              ELSE IF exc.status = 429 THEN "RATE_LIMIT"
              ELSE IF exc.status >= 500 THEN "SERVER"
              ELSE IF exc.status >= 400 THEN "CLIENT"
              ELSE "UNKNOWN",
          status_code |-> SomeInt(exc.status)]
    ELSE [category |-> "UNKNOWN", status_code |-> NoneInt]

\* mutant: the body is not cut
ResponseBody_Uncut(exc) ==
    IF exc.kind # "http" THEN [kind |-> "none", len |-> 0]
    ELSE IF exc.body_readable THEN [kind |-> "text", len |-> exc.body_len]
    ELSE [kind |-> "placeholder", len |-> PlaceholderLen]

\* exc.response.text[:1000], the placeholder when the body cannot be read,
\* None when the exception has no response; a body is modelled by its length
ResponseBody(exc) ==
    IF exc.kind # "http" THEN [kind |-> "none", len |-> 0]
    ELSE IF exc.body_readable THEN [kind |-> "text", len |-> Min(exc.body_len, BodyLimit)]
    ELSE [kind |-> "placeholder", len |-> PlaceholderLen]

raise_sse_error(exc, endpoint_name, req) ==
    [error_category |-> categorize_error(exc).category,
     status_code |-> categorize_error(exc).status_code,
     response_body |-> ResponseBody(exc),
     request_url |-> req.url,
     request_method |-> req.method,
     endpoint |-> endpoint_name]

(***************************************************************************)
(* Option resolution at the head of stream_sse and of consume_sse.         *)
(* args: what the caller passed (set = FALSE: not passed, the signature's  *)
(* default applies); cfg: the endpoint's sse dict (set = FALSE: key absent) *)
(***************************************************************************)
\* a drop policy is an atom; str(...).lower() maps the upper-case spellings
NonePolicy == [set |-> FALSE, val |-> ""]
SomePolicy(p) == [set |-> TRUE, val |-> p]
Lower(p) ==
    IF p = "BLOCK" THEN "block" ELSE IF p = "DROP_OLDEST" THEN "drop_oldest" ELSE p

ArgOr(a, default) == IF a.set THEN a.val ELSE default

\* max_events, max_reconnect_attempts: "if x is None and cfg.get(k) is not None"
ResolveNoneFirst(a, c) == IF ~a.set /\ c.set THEN c ELSE a

\* reconnect, reconnect_delay, decode_json, chunk_size, ...:
\* x = cfg.get(k, x)
ResolveCfgGet(c, param) == IF c.set THEN c.val ELSE param

ResolveStreamOptions(a, c) ==
    [max_events |-> ResolveNoneFirst(a.max_events, c.max_events),
     reconnect |-> ResolveCfgGet(c.reconnect, ArgOr(a.reconnect, TRUE)),
     reconnect_delay |-> ResolveCfgGet(c.reconnect_delay, ArgOr(a.reconnect_delay, 1)),
     max_reconnect_attempts |->
         ResolveNoneFirst(a.max_reconnect_attempts, c.max_reconnect_attempts),
     read_timeout |->
         IF a.read_timeout.set THEN a.read_timeout.val
         ELSE IF c.read_timeout.set THEN c.read_timeout.val
         ELSE DefaultTimeout,
     decode_json |-> ResolveCfgGet(c.decode_json, ArgOr(a.decode_json, TRUE))]

ResolveConsumeOptions(a, c) ==
    [max_events |-> ResolveNoneFirst(a.max_events, c.max_events),
     chunk_size |-> ResolveCfgGet(c.chunk_size, ArgOr(a.chunk_size, DefaultChunkSize)),
     backpressure_buffer_size |->
         ResolveCfgGet(c.backpressure_buffer_size,
                       ArgOr(a.backpressure_buffer_size, DefaultBufferSize)),
     drop_policy |-> Lower(ResolveCfgGet(c.drop_policy, ArgOr(a.drop_policy, "block")))]

\* mutant: the drop_policy is not checked
ConsumeOptionsValid_AnyPolicy(o) ==
    /\ o.chunk_size > 0
    /\ o.backpressure_buffer_size > 0

\* the three ValueError checks of consume_sse
ConsumeOptionsValid(o) ==
    /\ o.chunk_size > 0
    /\ o.backpressure_buffer_size > 0
    /\ o.drop_policy \in {"block", "drop_oldest"}

NoArgs ==
    [max_events |-> NoneInt, reconnect |-> NoneBool, reconnect_delay |-> NoneInt,
     max_reconnect_attempts |-> NoneInt, read_timeout |-> NoneInt,
     decode_json |-> NoneBool, chunk_size |-> NoneInt,
     backpressure_buffer_size |-> NoneInt, drop_policy |-> NonePolicy]

\* "sse": {} as in the test fixture
EmptyCfg == NoArgs

(***************************************************************************)
(* JSON values: the bodies of responses.  A value is a record              *)
(* [kind, val, items, map]: "null"; "bool" (val 1 is true); "int" (val);   *)
(* "str" (val names the string, 0 is the empty string); "list" (items);    *)
(* "dict" (map: a function from keys to values).  A key is one character.  *)
(***************************************************************************)
NoMap == <<>>
JNull == [kind |-> "null", val |-> 0, items |-> <<>>, map |-> NoMap]
JBool(b) == [kind |-> "bool", val |-> IF b THEN 1 ELSE 0, items |-> <<>>, map |-> NoMap]
JInt(n) == [kind |-> "int", val |-> n, items |-> <<>>, map |-> NoMap]
JStr(n) == [kind |-> "str", val |-> n, items |-> <<>>, map |-> NoMap]
JList(l) == [kind |-> "list", val |-> 0, items |-> l, map |-> NoMap]
JDict(m) == [kind |-> "dict", val |-> 0, items |-> <<>>, map |-> m]

\* isinstance(v, dict), isinstance(v, list)
IsDict(v) == v.kind = "dict"
IsList(v) == v.kind = "list"

\* isinstance(v, (str, int)): bool is a subclass of int
IsStrOrInt(v) == v.kind \in {"str", "int", "bool"}

\* bool(v) for a token: None, "", 0 and False are falsy
Truthy(v) == v.kind \in {"str", "int", "bool"} /\ v.val # 0

\* {"value": v}
ValueDict(v) == JDict("value" :> v)

\* path.split("."): the parts of a dotted path, each a string of characters
RECURSIVE SplitDots(_)
SplitDots(path) ==
    LET k == IndexOf(path, ".")
    IN IF k = 0 THEN <<path>>
       ELSE <<SubSeq(path, 1, k - 1)>> \o SplitDots(SubSeq(path, k + 1, Len(path)))

\* isinstance(current, dict) and part in current
HasPart(current, part) == IsDict(current) /\ Len(part) = 1 /\ part[1] \in DOMAIN current.map

\* "for part in path_parts": found = FALSE when the loop meets a missing
\* part, and at is then the value the walk had reached
RECURSIVE WalkPath(_, _)
WalkPath(current, parts) ==
    IF parts = <<>> THEN [found |-> TRUE, at |-> current]
    ELSE IF HasPart(current, Head(parts))
    THEN WalkPath(current.map[Head(parts)[1]], Tail(parts))
    ELSE [found |-> FALSE, at |-> current]

\* lines 212-251 of _process_response, after the limiter update and the
\* status check: the response_path walk (break on a missing part, data
\* replaced when current_data is not data), then the dict-or-list wrapping
process_response(body, response_path) ==
    LET current_data == IF response_path # <<>> /\ IsDict(body)
                        THEN WalkPath(body, SplitDots(response_path)).at
                        ELSE body
        walked == IF current_data # body THEN current_data ELSE body
    IN IF IsDict(walked) \/ IsList(walked) THEN walked ELSE ValueDict(walked)

(***************************************************************************)
(* _handle_pagination                                                      *)
(***************************************************************************)
\* endpoint.pagination: None, or a dict read with .get
NoPagination ==
    [set |-> FALSE, data_path |-> <<>>, next_page_path |-> <<>>, page_param |-> "page",
     max_pages |-> 10]
Pagination(data_path, next_page_path, max_pages) ==
    [set |-> TRUE, data_path |-> data_path, next_page_path |-> next_page_path,
     page_param |-> "page", max_pages |-> max_pages]

\* elem if isinstance(elem, dict) else {"value": elem}
NormalizeElem(elem) == IF IsDict(elem) THEN elem ELSE ValueDict(elem)

\* a list is normalised element by element, anything else becomes one item
NormalizeItems(items) ==
    IF IsList(items) THEN [i \in 1..Len(items.items) |-> NormalizeElem(items.items[i])]
    ELSE <<NormalizeElem(items)>>

\* lines 374-385: all_items.append for each element of the page
Accumulate(all_items, page_items) == all_items \o NormalizeItems(page_items)

\* lines 316-329 and 388-402: the token at next_page_path, None when a part is
\* missing or the value is not a str or an int
NextToken(page_data, next_page_path) ==
    LET w == WalkPath(page_data, SplitDots(next_page_path))
    IN IF w.found /\ IsStrOrInt(w.at) THEN w.at ELSE JNull

\* lines 270-337: what _handle_pagination does with the first response
\* before its loop; walk = FALSE: it returns out at once
FirstPage(initial_data, pg) ==
    IF ~pg.set \/ ~IsDict(initial_data)
    THEN [walk |-> FALSE,
          out |-> IF IsList(initial_data) THEN initial_data.items
                  ELSE <<NormalizeElem(initial_data)>>,
          next_page |-> JNull]
    ELSE LET w == IF pg.data_path # <<>>
                  THEN WalkPath(initial_data, SplitDots(pg.data_path))
                  ELSE [found |-> TRUE, at |-> initial_data]
             items_list == NormalizeItems(w.at)
             token == IF pg.next_page_path # <<>>
                      THEN NextToken(initial_data, pg.next_page_path)
                      ELSE JNull
         IN IF ~w.found
            THEN [walk |-> FALSE, out |-> <<initial_data>>, next_page |-> JNull]
            ELSE [walk |-> Truthy(token), out |-> items_list, next_page |-> token]

\* lines 359-385: the items of a follow-up page, [] when data_path is missing
PageItems(page_data, pg) ==
    IF pg.data_path # <<>>
    THEN LET w == WalkPath(page_data, SplitDots(pg.data_path))
         IN IF w.found THEN w.at ELSE JList(<<>>)
    ELSE page_data

\* lines 387-407: the next_page and page after a follow-up page
AfterPage(page_data, pg, p) ==
    IF pg.next_page_path # <<>>
    THEN [next_page |-> NextToken(page_data, pg.next_page_path), page |-> p]
    ELSE [next_page |-> IF p + 1 <= pg.max_pages THEN JInt(p + 1) ELSE JNull,
          page |-> p + 1]

\* a pagination that follows the token at "n" and one that has no
\* next_page_path; both read the items at "i"
LinkPagination == Pagination(<<"i">>, <<"n">>, 10)
ShortLinkPagination == Pagination(<<"i">>, <<"n">>, 1)
CounterPagination == Pagination(<<"i">>, <<>>, 10)

(***************************************************************************)
(* State.                                                                  *)
(***************************************************************************)
VARIABLES
    env,                       \* what the server side may do (lines, failures)
    cpc,                       \* position of consume_sse ("none": not called)
    endpoint_known,            \* endpoint_name in self.endpoints
    args,                      \* the keyword arguments the caller passed
    sse_config,                \* endpoint.sse or {}
    pc,                        \* position of the generator / of the call
    opt,                       \* the resolved stream options
    copt,                      \* the resolved consume_sse options
    reconnect_attempts,
    received_events,
    last_event_id,
    effective_reconnect_delay, \* in milliseconds
    pending_lines,
    request,                   \* the request of the current loop iteration
    conn_open,                 \* connections currently held by "with"
    lines_read,                \* lines delivered by iter_lines so far
    conns,                     \* client.stream calls made so far
    trace,                     \* what the invocation did, in order
    arrived,                   \* events consume_sse got from stream_sse so far
    buffer,                    \* the deque of consume_sse, oldest first
    dropped_events,
    processed_events,
    chunks_processed,
    chunk_results,
    connector,                 \* retry_count, retry_delay and the endpoint's config
    data,                      \* the payload given to send_data
    rpc,                       \* position of fetch_data / send_data ("none": not called)
    attempt,                   \* the loop variable of the retry loop
    last_exception,
    item_index,                \* the loop variable of the batch loop
    successful,
    failed,
    results,
    failures,
    next_page,                 \* the pagination walker's next_page, falsy when absent
    params,                    \* the params the caller passed to the call
    result,                    \* what fetch_data returns
    all_items,                 \* the pagination walker's all_items
    page,                      \* the pagination walker's page counter
    pages                      \* responses the walker has read so far

vars ==
    <<env, cpc, endpoint_known, args, sse_config, pc, opt, copt, reconnect_attempts,
      received_events, last_event_id, effective_reconnect_delay, pending_lines,
      request, conn_open, lines_read, conns, trace, arrived, buffer,
      dropped_events, processed_events, chunks_processed, chunk_results, connector,
      data, rpc, attempt, last_exception, item_index, successful, failed, results,
      failures, next_page, params, result, all_items, page, pages>>

\* the locals of consume_sse (lines 826-830) and its place in the stream
consumeVars ==
    <<arrived, buffer, dropped_events, processed_events, chunks_processed,
      chunk_results>>

\* the state of one fetch_data or send_data call
callVars ==
    <<connector, data, rpc, attempt, last_exception, item_index, successful, failed,
      results, failures, next_page, params, result, all_items, page, pages>>

\* the state of the pagination walker and the value fetch_data returns
pageVars == <<next_page, result, all_items, page, pages>>

\* the state of one stream_sse generator
streamVars ==
    <<pc, opt, reconnect_attempts, received_events, last_event_id,
      effective_reconnect_delay, pending_lines, request, conn_open, lines_read, conns>>

EndpointName == "events"
EndpointPath == "/events"
EndpointMethod == "GET"

NoOpt ==
    [max_events |-> NoneInt, reconnect |-> FALSE, reconnect_delay |-> 0,
     max_reconnect_attempts |-> NoneInt, read_timeout |-> 0, decode_json |-> FALSE]
NoCopt ==
    [max_events |-> NoneInt, chunk_size |-> 0, backpressure_buffer_size |-> 0,
     drop_policy |-> ""]
NoRequest == [url |-> "", method |-> "", last_event_id |-> NoneStr, timeout |-> 0]

(***************************************************************************)
(* The wire: the lines a server may send and the failures of a connection. *)
(***************************************************************************)
L_blank == <<>>
L_data == <<"d", "a", "t", "a", ":", " ", "x">>
L_id1 == <<"i", "d", ":", " ", "1">>
L_id2 == <<"i", "d", ":", " ", "2">>
L_idEmpty == <<"i", "d", ":">>
L_retry == <<"r", "e", "t", "r", "y", ":", " ", "5">>

ExcTransport == [kind |-> "transport", status |-> 0, body_len |-> 0, body_readable |-> FALSE]
ExcTimeout == [kind |-> "timeout", status |-> 0, body_len |-> 0, body_readable |-> FALSE]
ExcOther == [kind |-> "other", status |-> 0, body_len |-> 0, body_readable |-> FALSE]
ExcHttp(st, n, r) == [kind |-> "http", status |-> st, body_len |-> n, body_readable |-> r]

\* env.lines: the lines iter_lines may deliver; env.open_errors: failures of
\* client.stream before a response exists; env.status_errors: the non-2xx
\* responses (raise_for_status raises); env.read_errors: failures of iter_lines
\* a response body {"i": items, "n": token} and one without a token; the
\* key "i" holds the items of a page and the key "n" the next-page token
Page(items, token) == JDict("i" :> JList(items) @@ "n" :> token)
LastPage(items) == JDict("i" :> JList(items))

\* env.bodies: the JSON bodies a 2xx response may carry
Env(ls, oe, se, re) ==
    [lines |-> ls, open_errors |-> oe, status_errors |-> se, read_errors |-> re,
     bodies |-> {Page(<<>>, JInt(2)), LastPage(<<>>)}]

WithBodies(e, bodies) == [e EXCEPT !.bodies = bodies]

(***************************************************************************)
(* _build_sse_request and _dispatch_event                                  *)
(***************************************************************************)
build_sse_request(lei, read_timeout) ==
    [url |-> EndpointPath, method |-> EndpointMethod,
     last_event_id |-> IF lei.set /\ lei.val # <<>> THEN lei ELSE NoneStr,
     timeout |-> read_timeout]

\* mutant: the hint is taken for seconds
RetryHintDelay_NotDivided(retry_hint) == Max(0, retry_hint * MsPerSecond)

\* float(retry_hint) / 1000.0 seconds, kept in milliseconds
RetryHintDelay(retry_hint) == Max(0, (retry_hint * MsPerSecond) \div 1000)

\* max(0.0, reconnect_delay), reconnect_delay in seconds, kept in milliseconds
InitialDelay(reconnect_delay) == Max(0, reconnect_delay * MsPerSecond)

PopHasData(event) == [f \in DOMAIN event \ {"has_data"} |-> event[f]]

\* mutant: control blocks are dispatched like events
dispatch_event_NoDataCheck(event, delay, lei, received) ==
    [effective_reconnect_delay |->
         IF event.retry.set THEN RetryHintDelay(event.retry.val) ELSE delay,
     last_event_id |->
         IF event.id.set /\ event.id.val # <<>> THEN SomeStr(event.id.val) ELSE lei,
     received_events |-> received + 1, emit |-> TRUE, event |-> PopHasData(event)]

\* the closure _dispatch_event: the new values of its nonlocals and the
\* event it returns (emit = FALSE: it returns None)
dispatch_event(event, delay, lei, received) ==
    LET d == IF event.retry.set THEN RetryHintDelay(event.retry.val) ELSE delay
        l == IF event.id.set /\ event.id.val # <<>> THEN SomeStr(event.id.val) ELSE lei
    IN IF ~event.has_data
       THEN [effective_reconnect_delay |-> d, last_event_id |-> l,
             received_events |-> received, emit |-> FALSE, event |-> event]
       ELSE [effective_reconnect_delay |-> d, last_event_id |-> l,
             received_events |-> received + 1, emit |-> TRUE,
             event |-> PopHasData(event)]

(***************************************************************************)
(* Entries of the trace.                                                   *)
(***************************************************************************)
E(name) == [op |-> name]
Count(es, name) == Cardinality({i \in 1..Len(es) : es[i].op = name})
ERequest(req) == [op |-> "request", request |-> req]
ELine(raw_line) == [op |-> "line", line |-> raw_line]
EExc(exc) == [op |-> "exc", exc |-> exc]
ESleep(ms) == [op |-> "sleep", ms |-> ms]
ERaise(err) == [op |-> "raise", error |-> err]
EYield(ev) == [op |-> "yield", event |-> ev]

\* mutant: the event is handed over ahead of what was already handed over
Yield_Reordered(tr, ev) == <<EYield(ev)>> \o tr

\* "yield event": the event crosses to the caller
Yield(tr, ev) == Append(tr, EYield(ev))

MaxReached(received) == opt.max_events.set /\ received >= opt.max_events.val

\* mutant: the limit test is ">=" instead of ">"
ExceptionHandler_LimitOffByOne(exc, req, tr, attempts, delay) ==
    IF ~opt.reconnect
    THEN [pc |-> "raised", reconnect_attempts |-> attempts,
          trace |-> Append(tr, ERaise(raise_sse_error(exc, EndpointName, req)))]
    ELSE IF opt.max_reconnect_attempts.set
            /\ attempts + 1 >= opt.max_reconnect_attempts.val
    THEN [pc |-> "raised", reconnect_attempts |-> attempts + 1,
          trace |-> Append(tr, ERaise(raise_sse_error(exc, EndpointName, req)))]
    ELSE [pc |-> "sleep_exc", reconnect_attempts |-> attempts + 1,
          trace |-> Append(tr, ESleep(delay))]

\* mutant: the counter is compared with the limit before it is incremented
ExceptionHandler_LateCount(exc, req, tr, attempts, delay) ==
    IF ~opt.reconnect
    THEN [pc |-> "raised", reconnect_attempts |-> attempts,
          trace |-> Append(tr, ERaise(raise_sse_error(exc, EndpointName, req)))]
    ELSE IF opt.max_reconnect_attempts.set
            /\ attempts > opt.max_reconnect_attempts.val
    THEN [pc |-> "raised", reconnect_attempts |-> attempts + 1,
          trace |-> Append(tr, ERaise(raise_sse_error(exc, EndpointName, req)))]
    ELSE [pc |-> "sleep_exc", reconnect_attempts |-> attempts + 1,
          trace |-> Append(tr, ESleep(delay))]

\* lines 733-752: the handler "except Exception as exc"; the trace tr ends
\* with the exception.  Gives the next position, the counter and the trace.
ExceptionHandler(exc, req, tr, attempts, delay) ==
    IF ~opt.reconnect
    THEN [pc |-> "raised", reconnect_attempts |-> attempts,
          trace |-> Append(tr, ERaise(raise_sse_error(exc, EndpointName, req)))]
    ELSE IF opt.max_reconnect_attempts.set
            /\ attempts + 1 > opt.max_reconnect_attempts.val
    THEN [pc |-> "raised", reconnect_attempts |-> attempts + 1,
          trace |-> Append(tr, ERaise(raise_sse_error(exc, EndpointName, req)))]
    ELSE [pc |-> "sleep_exc", reconnect_attempts |-> attempts + 1,
          trace |-> Append(tr, ESleep(delay))]

\* mutant: a clean closure does not count as a reconnect attempt
NaturalClose_NotCounted(tr, attempts, delay) ==
    IF ~opt.reconnect
    THEN [pc |-> "done", reconnect_attempts |-> attempts, trace |-> tr]
    ELSE IF opt.max_reconnect_attempts.set
            /\ attempts + 1 > opt.max_reconnect_attempts.val
    THEN [pc |-> "done", reconnect_attempts |-> attempts, trace |-> tr]
    ELSE [pc |-> "sleep_close", reconnect_attempts |-> attempts,
          trace |-> Append(tr, ESleep(delay))]

\* mutant: a clean closure beyond the limit is treated as a failure
NaturalClose_RaisesAtLimit(tr, attempts, delay) ==
    IF ~opt.reconnect
    THEN [pc |-> "done", reconnect_attempts |-> attempts, trace |-> tr]
    ELSE IF opt.max_reconnect_attempts.set
            /\ attempts + 1 > opt.max_reconnect_attempts.val
    THEN [pc |-> "raised", reconnect_attempts |-> attempts + 1,
          trace |-> Append(tr, E("raise"))]
    ELSE [pc |-> "sleep_close", reconnect_attempts |-> attempts + 1,
          trace |-> Append(tr, ESleep(delay))]

\* lines 754-771: the stream closed without an exception
NaturalClose(tr, attempts, delay) ==
    IF ~opt.reconnect
    THEN [pc |-> "done", reconnect_attempts |-> attempts, trace |-> tr]
    ELSE IF opt.max_reconnect_attempts.set
            /\ attempts + 1 > opt.max_reconnect_attempts.val
    THEN [pc |-> "done", reconnect_attempts |-> attempts + 1, trace |-> tr]
    ELSE [pc |-> "sleep_close", reconnect_attempts |-> attempts + 1,
          trace |-> Append(tr, ESleep(delay))]

(***************************************************************************)
(* stream_sse                                                              *)
(***************************************************************************)
\* first next() on the generator: lines 613-641
Start ==
    /\ pc = "init"
    /\ cpc = "none"
    /\ rpc = "none"
    /\ IF ~endpoint_known
       THEN /\ pc' = "config_error"
            /\ trace' = Append(trace, E("value_error"))
            /\ UNCHANGED <<opt, reconnect_attempts, received_events, last_event_id,
                           effective_reconnect_delay>>
       ELSE /\ pc' = "connect"
            /\ opt' = ResolveStreamOptions(args, sse_config)
            /\ reconnect_attempts' = 0
            /\ received_events' = 0
            /\ last_event_id' = NoneStr
            /\ effective_reconnect_delay' = InitialDelay(opt'.reconnect_delay)
            /\ trace' = trace
    /\ UNCHANGED <<consumeVars, callVars>>
    /\ UNCHANGED <<env, cpc, endpoint_known, args, sse_config, copt, pending_lines, request,
                   conn_open, lines_read, conns>>

\* mutant: leaving "with" does not release the connection
WithExit_Leak(tr) == tr

\* line 649: the end of "with self.client.stream(...) as response", however
\* the block is left, releases the connection
WithExit(tr) == Append(tr, E("release"))

\* lines 644-655: request built, limiter acquired, client.stream called
Calling(req) == trace \o <<ERequest(req), E("acquire"), E("call")>>

\* client.stream (or acquire) raises before a response exists
ConnectFail ==
    /\ pc = "connect"
    /\ conns < MaxConns
    /\ \E exc \in env.open_errors :
        LET req == build_sse_request(last_event_id, opt.read_timeout)
            h == ExceptionHandler(exc, req, Append(Calling(req), EExc(exc)),
                                  reconnect_attempts, effective_reconnect_delay)
        IN /\ request' = req
           /\ pc' = h.pc
           /\ reconnect_attempts' = h.reconnect_attempts
           /\ trace' = h.trace
    /\ conns' = conns + 1
    /\ UNCHANGED <<consumeVars, callVars>>
    /\ UNCHANGED <<env, cpc, endpoint_known, args, sse_config, opt, copt, received_events,
                   last_event_id, effective_reconnect_delay, pending_lines,
                   conn_open, lines_read>>

\* lines 656-660: a response with a non-2xx status; raise_for_status raises
\* inside "with", which releases the connection
ConnectStatus ==
    /\ pc = "connect"
    /\ conns < MaxConns
    /\ \E exc \in env.status_errors :
        LET req == build_sse_request(last_event_id, opt.read_timeout)
            tr == WithExit(Calling(req) \o <<E("open"), E("update"), EExc(exc)>>)
            h == ExceptionHandler(exc, req, tr, reconnect_attempts,
                                  effective_reconnect_delay)
        IN /\ request' = req
           /\ pc' = h.pc
           /\ reconnect_attempts' = h.reconnect_attempts
           /\ trace' = h.trace
    /\ conns' = conns + 1
    /\ UNCHANGED <<consumeVars, callVars>>
    /\ UNCHANGED <<env, cpc, endpoint_known, args, sse_config, opt, copt, received_events,
                   last_event_id, effective_reconnect_delay, pending_lines,
                   conn_open, lines_read>>

\* mutant: the lines pending when the previous connection ended are kept
FreshPending_Kept(pending) == pending

\* line 668: "pending_lines = []" once the connection is established
FreshPending(pending) == <<>>

\* lines 656-668: a 2xx response; the for loop over iter_lines starts
ConnectOK ==
    /\ pc = "connect"
    /\ conns < MaxConns
    /\ LET req == build_sse_request(last_event_id, opt.read_timeout)
       IN /\ request' = req
          /\ trace' = Calling(req) \o <<E("open"), E("update")>>
    /\ pc' = "stream"
    /\ pending_lines' = FreshPending(pending_lines)
    /\ conn_open' = conn_open + 1
    /\ conns' = conns + 1
    /\ UNCHANGED <<consumeVars, callVars>>
    /\ UNCHANGED <<env, cpc, endpoint_known, args, sse_config, opt, copt, reconnect_attempts,
                   received_events, last_event_id, effective_reconnect_delay,
                   lines_read>>

\* lines 693-716: one iteration of "for raw_line in response.iter_lines()"
ReadLine ==
    /\ pc = "stream"
    /\ lines_read < MaxLines
    /\ \E raw_line \in env.lines :
        \E parsed \in {parse_sse_event(pending_lines, opt.decode_json)} :
        LET line == RstripCR(raw_line)
            tr == Append(trace, ELine(raw_line))
        IN IF line # <<>>
           THEN /\ pending_lines' = Append(pending_lines, line)
                /\ trace' = tr
                /\ UNCHANGED <<pc, received_events, last_event_id,
                               effective_reconnect_delay>>
           ELSE /\ pending_lines' = <<>>
                /\ IF ~parsed.some
                   THEN /\ trace' = tr
                        /\ UNCHANGED <<pc, received_events, last_event_id,
                                       effective_reconnect_delay>>
                   ELSE LET d == dispatch_event(parsed.ev, effective_reconnect_delay,
                                                last_event_id, received_events)
                        IN /\ effective_reconnect_delay' = d.effective_reconnect_delay
                           /\ last_event_id' = d.last_event_id
                           /\ received_events' = d.received_events
                           /\ IF d.emit
                              THEN pc' = "yielded_loop" /\ trace' = Yield(tr, d.event)
                              ELSE pc' = pc /\ trace' = tr
    /\ lines_read' = lines_read + 1
    /\ UNCHANGED <<consumeVars, callVars>>
    /\ UNCHANGED <<env, cpc, endpoint_known, args, sse_config, opt, copt, reconnect_attempts,
                   request, conn_open, conns>>

\* mutant: the lines pending at the end of the stream are left unparsed
TrailingBlock_Dropped(pending) == <<>>

\* lines 718-722: the block that is parsed when iter_lines is exhausted
TrailingBlock(pending) == pending

\* lines 718-731 and 754-771: iter_lines is exhausted; the trailing block is
\* flushed, then "with" releases the connection and the closure is handled
StreamEnd ==
    /\ pc = "stream"
    /\ \E parsed \in {parse_sse_event(TrailingBlock(pending_lines), opt.decode_json)} :
       LET tr == Append(trace, E("eos"))
           trailing == TrailingBlock(pending_lines)
           d == dispatch_event(parsed.ev, effective_reconnect_delay,
                               last_event_id, received_events)
       IN IF trailing # <<>> /\ parsed.some
          THEN /\ effective_reconnect_delay' = d.effective_reconnect_delay
               /\ last_event_id' = d.last_event_id
               /\ received_events' = d.received_events
               /\ IF d.emit
                  THEN /\ pc' = "yielded_flush"
                       /\ trace' = Yield(tr, d.event)
                       /\ UNCHANGED <<reconnect_attempts, conn_open>>
                  ELSE LET n == NaturalClose(WithExit(tr),
                                             reconnect_attempts,
                                             d.effective_reconnect_delay)
                       IN /\ pc' = n.pc
                          /\ reconnect_attempts' = n.reconnect_attempts
                          /\ trace' = n.trace
                          /\ conn_open' = conn_open - 1
          ELSE LET n == NaturalClose(WithExit(tr), reconnect_attempts,
                                     effective_reconnect_delay)
               IN /\ pc' = n.pc
                  /\ reconnect_attempts' = n.reconnect_attempts
                  /\ trace' = n.trace
                  /\ conn_open' = conn_open - 1
                  /\ UNCHANGED <<received_events, last_event_id,
                                 effective_reconnect_delay>>
    /\ UNCHANGED <<consumeVars, callVars>>
    /\ UNCHANGED <<env, cpc, endpoint_known, args, sse_config, opt, copt, pending_lines,
                   request, lines_read, conns>>

\* iter_lines raises: "with" releases the connection, then the handler runs
ReadError ==
    /\ pc = "stream"
    /\ \E exc \in env.read_errors :
        LET h == ExceptionHandler(exc, request,
                                  WithExit(Append(trace, EExc(exc))),
                                  reconnect_attempts, effective_reconnect_delay)
        IN /\ pc' = h.pc
           /\ reconnect_attempts' = h.reconnect_attempts
           /\ trace' = h.trace
    /\ conn_open' = conn_open - 1
    /\ UNCHANGED <<consumeVars, callVars>>
    /\ UNCHANGED <<env, cpc, endpoint_known, args, sse_config, opt, copt, received_events,
                   last_event_id, effective_reconnect_delay, pending_lines,
                   request, lines_read, conns>>

\* the caller asks for the next event: lines 713-714 or 727-731 and what follows
Resume ==
    /\ pc \in {"yielded_loop", "yielded_flush"}
    /\ IF MaxReached(received_events)
       THEN /\ pc' = "done"
            /\ trace' = WithExit(trace)
            /\ conn_open' = conn_open - 1
            /\ UNCHANGED reconnect_attempts
       ELSE IF pc = "yielded_loop"
       THEN /\ pc' = "stream"
            /\ UNCHANGED <<trace, conn_open, reconnect_attempts>>
       ELSE LET n == NaturalClose(WithExit(trace), reconnect_attempts,
                                  effective_reconnect_delay)
            IN /\ pc' = n.pc
               /\ reconnect_attempts' = n.reconnect_attempts
               /\ trace' = n.trace
               /\ conn_open' = conn_open - 1
    /\ UNCHANGED <<consumeVars, callVars>>
    /\ UNCHANGED <<env, cpc, endpoint_known, args, sse_config, opt, copt, received_events,
                   last_event_id, effective_reconnect_delay, pending_lines,
                   request, lines_read, conns>>

\* the caller closes the suspended generator: GeneratorExit is no Exception,
\* so only "with" acts
GenClose ==
    /\ pc \in {"yielded_loop", "yielded_flush"}
    /\ pc' = "closed"
    /\ trace' = WithExit(trace)
    /\ conn_open' = conn_open - 1
    /\ UNCHANGED <<consumeVars, callVars>>
    /\ UNCHANGED <<env, cpc, endpoint_known, args, sse_config, opt, copt, reconnect_attempts,
                   received_events, last_event_id, effective_reconnect_delay,
                   pending_lines, request, lines_read, conns>>

\* time.sleep returns: line 752 "continue", or the end of the loop body
SleepDone ==
    /\ pc \in {"sleep_exc", "sleep_close"}
    /\ pc' = "connect"
    /\ UNCHANGED <<consumeVars, callVars>>
    /\ UNCHANGED <<env, cpc, endpoint_known, args, sse_config, opt, copt, reconnect_attempts,
                   received_events, last_event_id, effective_reconnect_delay,
                   pending_lines, request, conn_open, lines_read, conns, trace>>

(***************************************************************************)
(* consume_sse                                                             *)
(***************************************************************************)
\* lines 804-824: the endpoint check, the options, the three ValueErrors
ConsumeStart ==
    /\ cpc = "init"
    /\ IF ~endpoint_known
       THEN /\ cpc' = "config_error"
            /\ trace' = Append(trace, E("value_error"))
            /\ copt' = copt
       ELSE /\ copt' = ResolveConsumeOptions(args, sse_config)
            /\ IF ConsumeOptionsValid(copt')
               THEN cpc' = "running" /\ trace' = trace
               ELSE cpc' = "config_error" /\ trace' = Append(trace, E("value_error"))
    /\ UNCHANGED <<consumeVars, callVars>>
    /\ UNCHANGED <<env, endpoint_known, args, sse_config, pc, opt, reconnect_attempts,
                   received_events, last_event_id, effective_reconnect_delay,
                   pending_lines, request, conn_open, lines_read, conns>>

\* mutant: a forced flush does not return early on an empty buffer
RECURSIVE flush_NoEmptyGuard(_, _, _)
flush_NoEmptyGuard(buf, force, chunk_size) ==
    IF force \/ Len(buf) >= chunk_size
    THEN LET current_chunk_size == IF Len(buf) >= chunk_size THEN chunk_size
                                  ELSE Len(buf)
             chunk == SubSeq(buf, 1, current_chunk_size)
             rest == SubSeq(buf, current_chunk_size + 1, Len(buf))
         IN IF ~force \/ rest = <<>> THEN [buffer |-> rest, chunks |-> <<chunk>>]
            ELSE LET r == flush_NoEmptyGuard(rest, force, chunk_size)
                 IN [buffer |-> r.buffer, chunks |-> <<chunk>> \o r.chunks]
    ELSE [buffer |-> buf, chunks |-> <<>>]

\* _flush (lines 832-854): the chunks taken from the front of the buffer, in
\* order, and what stays; at most one chunk unless forced
RECURSIVE flush(_, _, _)
flush(buf, force, chunk_size) ==
    IF buf # <<>> /\ (force \/ Len(buf) >= chunk_size)
    THEN LET current_chunk_size == IF Len(buf) >= chunk_size THEN chunk_size
                                  ELSE Len(buf)
             chunk == SubSeq(buf, 1, current_chunk_size)
             rest == SubSeq(buf, current_chunk_size + 1, Len(buf))
         IN IF ~force THEN [buffer |-> rest, chunks |-> <<chunk>>]
            ELSE LET r == flush(rest, force, chunk_size)
                 IN [buffer |-> r.buffer, chunks |-> <<chunk>> \o r.chunks]
    ELSE [buffer |-> buf, chunks |-> <<>>]

\* buffer.popleft() of the drop_oldest strategy, line 864
DropOldest_Newest(buf) == SubSeq(buf, 1, Len(buf) - 1)
DropOldest(buf) == Tail(buf)

\* line 877: the flush after the stream is exhausted
FinalFlush_NotForced(buf, chunk_size) == flush(buf, FALSE, chunk_size)
FinalFlush(buf, chunk_size) == flush(buf, TRUE, chunk_size)

\* line 874: the flush that follows every append
AdmissionFlush_None(buf, chunk_size) == [buffer |-> buf, chunks |-> <<>>]
AdmissionFlush(buf, chunk_size) == flush(buf, FALSE, chunk_size)

\* the block strategy's fallback when no whole chunk could be flushed, line 870
BlockFallback_NoFlush(buf, chunk_size) == [buffer |-> buf, chunks |-> <<>>]
BlockFallback(buf, chunk_size) == flush(buf, TRUE, chunk_size)

\* mutant: the buffer is not relieved before the event is appended
Backpressure_Skipped(s, o) == s

\* lines 862-871: "while len(buffer) >= backpressure_buffer_size"; s holds the
\* buffer, the events dropped and the chunks flushed so far
RECURSIVE Backpressure(_, _)
Backpressure(s, o) ==
    IF Len(s.buffer) >= o.backpressure_buffer_size
    THEN IF o.drop_policy = "drop_oldest"
         THEN [s EXCEPT !.buffer = DropOldest(@), !.dropped = @ + 1]
         ELSE LET f == flush(s.buffer, FALSE, o.chunk_size)
              IN IF f.chunks = <<>>
                 THEN LET g == BlockFallback(s.buffer, o.chunk_size)
                      IN [s EXCEPT !.buffer = g.buffer, !.chunks = @ \o g.chunks]
                 ELSE Backpressure([s EXCEPT !.buffer = f.buffer,
                                             !.chunks = @ \o f.chunks], o)
    ELSE s

\* deque(maxlen=...).append: a full deque discards its oldest element
DequeAppend(buf, event, maxlen) ==
    IF Len(buf) >= maxlen THEN Append(Tail(buf), event) ELSE Append(buf, event)

\* the number of events in a sequence of chunks
RECURSIVE EventsIn(_)
EventsIn(chunks) ==
    IF chunks = <<>> THEN 0 ELSE Len(Head(chunks)) + EventsIn(Tail(chunks))

\* lines 856-874: stream_sse yields the next event, numbered by arrival
ConsumeEvent ==
    /\ cpc = "running"
    /\ arrived < MaxEvents
    /\ LET event == arrived
           s == Backpressure([buffer |-> buffer, dropped |-> 0, chunks |-> <<>>], copt)
           admitted == DequeAppend(s.buffer, event, copt.backpressure_buffer_size)
           f == AdmissionFlush(admitted, copt.chunk_size)
           chunks == s.chunks \o f.chunks
       IN /\ buffer' = f.buffer
          /\ dropped_events' = dropped_events + s.dropped
          /\ chunks_processed' = chunks_processed + Len(chunks)
          /\ processed_events' = processed_events + EventsIn(chunks)
          /\ chunk_results' = chunk_results \o chunks
    /\ arrived' = arrived + 1
    /\ UNCHANGED <<callVars, streamVars, env, cpc, endpoint_known, args, sse_config,
                   copt, trace>>

\* lines 876-887: stream_sse is exhausted; the trailing events are processed
\* and the summary is returned
ConsumeEnd ==
    /\ cpc = "running"
    /\ LET f == FinalFlush(buffer, copt.chunk_size)
       IN /\ buffer' = f.buffer
          /\ chunks_processed' = chunks_processed + Len(f.chunks)
          /\ processed_events' = processed_events + EventsIn(f.chunks)
          /\ chunk_results' = chunk_results \o f.chunks
    /\ cpc' = "returned"
    /\ UNCHANGED <<callVars, streamVars, env, endpoint_known, args, sse_config, copt,
                   trace, arrived, dropped_events>>

\* lines 856-877: the for loop has no try, except or finally around it; what
\* an exception out of stream_sse leaves of the buffer and hands on
OnStreamError_Flushes(buf, chunk_size) == flush(buf, TRUE, chunk_size)
OnStreamError(buf, chunk_size) == [buffer |-> buf, chunks |-> <<>>]

\* stream_sse raises inside the for loop: nothing catches it, the buffered
\* events stay unprocessed
ConsumeStreamError ==
    /\ cpc = "running"
    /\ \E exc \in env.open_errors :
        trace' = Append(trace, ERaise(exc))
    /\ LET f == OnStreamError(buffer, copt.chunk_size)
       IN /\ buffer' = f.buffer
          /\ chunks_processed' = chunks_processed + Len(f.chunks)
          /\ processed_events' = processed_events + EventsIn(f.chunks)
          /\ chunk_results' = chunk_results \o f.chunks
    /\ cpc' = "raised"
    /\ UNCHANGED <<callVars, streamVars, env, endpoint_known, args, sse_config, copt,
                   arrived, dropped_events>>

(***************************************************************************)
(* fetch_data and send_data                                                *)
(***************************************************************************)
\* self.auth_config: None, or an object with a type and the attributes the
\* type goes with
NoAuth == [type |-> "none", in_header |-> FALSE, header_name |-> "", key |-> <<>>,
           token |-> <<>>]
BearerAuth(token) == [NoAuth EXCEPT !.type = "bearer", !.token = token]
ApiKeyAuth(in_header, header_name, key) ==
    [NoAuth EXCEPT !.type = "api_key", !.in_header = in_header,
                   !.header_name = header_name, !.key = key]

\* params=None, or a dict
NoParams == [set |-> FALSE, val |-> <<>>]
SomeParams(d) == [set |-> TRUE, val |-> d]

\* d.update(e) and {**d, **e}: the keys of e win
Update(d, e) ==
    [k \in DOMAIN d \cup DOMAIN e |-> IF k \in DOMAIN e THEN e[k] ELSE d[k]]

\* mutant: the endpoint headers are laid under the default headers
MergeHeaders_DefaultsWin(default_headers, endpoint_headers) ==
    Update(endpoint_headers, default_headers)

\* line 157: {**default_headers, **endpoint.headers}
MergeHeaders(default_headers, endpoint_headers) ==
    Update(default_headers, endpoint_headers)

\* lines 159-175: the header the auth configuration sets, if any
AuthHeaders(headers, auth) ==
    IF auth.type = "api_key" /\ auth.in_header
    THEN Update(headers, auth.header_name :> auth.key)
    ELSE IF auth.type = "bearer"
    THEN Update(headers, "Authorization" :> (<<"Bearer ">> \o auth.token))
    ELSE headers

\* lines 149-191 of _prepare_request: the request descriptor
prepare_request(c, ps) ==
    [url |-> EndpointPath,
     method |-> EndpointMethod,
     headers |-> AuthHeaders(MergeHeaders(c.default_headers, c.endpoint_headers),
                             c.auth_config),
     params |-> IF ps.set /\ DOMAIN ps.val # {}
                THEN Update(c.endpoint_params, ps.val)
                ELSE c.endpoint_params,
     json |-> c.body_template]

\* mutant: request_params is the endpoint's own dict, not a copy of it
EndpointParamsAfter_NoCopy(c, ps) ==
    IF ps.set /\ DOMAIN ps.val # {} THEN Update(c.endpoint_params, ps.val)
    ELSE c.endpoint_params

\* lines 152-154: endpoint.params after the call; request_params is a copy,
\* so the update does not reach the endpoint's dict
EndpointParamsAfter(c, ps) == c.endpoint_params

\* lines 552-558 of _build_sse_request: a copy of the prepared headers with
\* the SSE defaults and, for a non-empty last_event_id, Last-Event-ID
build_sse_headers(headers, lei) ==
    LET defaults == Update("Accept" :> <<"text/event-stream">>
                           @@ "Cache-Control" :> <<"no-cache">>, headers)
    IN IF lei.set /\ lei.val # <<>>
       THEN Update(defaults, "Last-Event-ID" :> lei.val)
       ELSE defaults

\* ApiConnector(...) with the constructor's defaults and an endpoint with no
\* pagination and no request_schema
DefaultConnector ==
    [retry_count |-> 3, retry_delay |-> 1, pagination |-> NoPagination,
     request_schema |-> FALSE, validator_available |-> TRUE,
     response_path |-> <<>>, default_headers |-> <<>>, endpoint_headers |-> <<>>,
     endpoint_params |-> <<>>, body_template |-> JNull, auth_config |-> NoAuth]

\* a payload is a mapping (kind "single", one item) or a list of items; of an
\* item only its validity against the request_schema matters
NoPayload == [kind |-> "none", items |-> <<>>]
SinglePayload(item) == [kind |-> "single", items |-> <<item>>]
ListPayload(items) == [kind |-> "list", items |-> items]
Item(valid) == [valid |-> valid]

\* last_exception = None
NoException == [kind |-> "none", status |-> 0, body_len |-> 0, body_readable |-> FALSE]

InitCallLocals ==
    /\ attempt = 0
    /\ last_exception = NoException
    /\ item_index = 0
    /\ successful = 0
    /\ failed = 0
    /\ results = <<>>
    /\ failures = <<>>
    /\ next_page = JNull
    /\ result = JNull
    /\ all_items = <<>>
    /\ page = 0
    /\ pages = 0

\* wait_time = self.retry_delay * attempt, in milliseconds
WaitTime_Constant(retry_delay, att) == MsPerSecond * retry_delay
WaitTime(retry_delay, att) == MsPerSecond * retry_delay * att

\* lines 958-978 and 1142-1164: the structured error of an exhausted retry loop
StructuredError(exc) ==
    [error_category |-> categorize_error(exc).category,
     status_code |-> categorize_error(exc).status_code,
     response_body |-> ResponseBody(exc),
     request_url |-> EndpointPath,
     request_method |-> EndpointMethod,
     endpoint |-> EndpointName]

\* lines 981-985: the retry loop of fetch_data ran no attempt
UnexpectedStateError ==
    [error_category |-> "UNKNOWN", status_code |-> SomeInt(0),
     response_body |-> [kind |-> "none", len |-> 0],
     request_url |-> "", request_method |-> "", endpoint |-> ""]

\* lines 1028-1033: the error of a payload that fails the request_schema
ValidationError ==
    [error_category |-> "VALIDATION", status_code |-> SomeInt(0),
     response_body |-> [kind |-> "none", len |-> 0],
     request_url |-> "", request_method |-> "", endpoint |-> EndpointName]

\* lines 1016-1039: does _validate_item raise for some item of the payload
ValidationRaises_Never(c, payload) == FALSE
ValidationRaises(c, payload) ==
    /\ c.request_schema
    /\ c.validator_available
    /\ \E i \in 1..Len(payload.items) : ~payload.items[i].valid

\* lines 942-955 and 1127-1139, then what follows the loop: the except clause
\* of attempt att, which sleeps before the next attempt or, after the last
\* one, lets the loop end and the structured error be raised
RetryHandler(exc, tr, att, c, sleeping) ==
    IF att < c.retry_count
    THEN [rpc |-> sleeping,
          trace |-> Append(tr, ESleep(WaitTime(c.retry_delay, att)))]
    ELSE [rpc |-> "raised", trace |-> Append(tr, ERaise(StructuredError(exc)))]

\* lines 920-929: the limiter is acquired, then client.request is called
Requesting(tr) == tr \o <<E("acquire"), E("call")>>

\* lines 341-355: the pagination walker calls client.request directly, with
\* page_param set to next_page
EPageCall(token) == [op |-> "call", page_param |-> token]
PageRequesting(tr, token) == Append(tr, EPageCall(token))

\* a 2xx response and its JSON body
EResponse(body) == [op |-> "response", body |-> body]

\* a call of _prepare_request or _build_sse_request with its arguments
ECall(name, ps, lei) == [op |-> name, params |-> ps, last_event_id |-> lei]

\* lines 905-918: the endpoint check, _prepare_request, the head of the loop
FetchStart ==
    /\ rpc = "fetch_init"
    /\ IF ~endpoint_known
       THEN /\ rpc' = "config_error"
            /\ trace' = Append(trace, E("value_error"))
            /\ attempt' = attempt
       ELSE IF connector.retry_count >= 1
       THEN /\ rpc' = "fetch_attempt"
            /\ attempt' = 1
            /\ trace' = trace
       ELSE /\ rpc' = "raised"
            /\ attempt' = attempt
            /\ trace' = Append(trace, ERaise(UnexpectedStateError))
    /\ UNCHANGED <<consumeVars, streamVars, env, cpc, endpoint_known, args, sse_config,
                   copt, connector, params, data, last_exception, item_index, successful,
                   failed, results, failures>>
    /\ UNCHANGED pageVars

\* lines 919-955, one pass through the loop body, and 957-978 after the last
FetchAttempt ==
    /\ rpc = "fetch_attempt"
    /\ \/ \E exc \in env.open_errors :
            \* client.request raises
            LET h == RetryHandler(exc, Append(Requesting(trace), EExc(exc)), attempt,
                                  connector, "fetch_sleep")
            IN /\ rpc' = h.rpc /\ trace' = h.trace /\ last_exception' = exc
               /\ UNCHANGED pageVars
       \/ \E exc \in env.status_errors :
            \* line 930: raise_for_status raises before _process_response runs
            LET h == RetryHandler(exc, Requesting(trace) \o <<E("response"), EExc(exc)>>,
                                  attempt, connector, "fetch_sleep")
            IN /\ rpc' = h.rpc /\ trace' = h.trace /\ last_exception' = exc
               /\ UNCHANGED pageVars
       \/ \E exc \in env.read_errors :
            \* _process_response: the limiter is updated, then response.json() raises
            LET h == RetryHandler(exc, Requesting(trace)
                                       \o <<E("response"), E("update"), EExc(exc)>>,
                                  attempt, connector, "fetch_sleep")
            IN /\ rpc' = h.rpc /\ trace' = h.trace /\ last_exception' = exc
               /\ UNCHANGED pageVars
       \/ \E body \in env.bodies :
            \* a 2xx response with a JSON body: _process_response, then lines
            \* 936-937: _handle_pagination if the endpoint has a pagination
            LET tr == Requesting(trace) \o <<EResponse(body), E("update")>>
                processed == process_response(body, connector.response_path)
                first == FirstPage(processed, connector.pagination)
            IN /\ last_exception' = last_exception
               /\ IF connector.pagination.set /\ first.walk
                  THEN /\ rpc' = "paginate"
                       /\ next_page' = first.next_page
                       /\ all_items' = first.out
                       /\ page' = 2
                       /\ pages' = 1
                       /\ result' = result
                       /\ trace' = tr
                  ELSE /\ rpc' = "returned"
                       /\ result' = IF connector.pagination.set THEN JList(first.out)
                                    ELSE processed
                       /\ trace' = Append(tr, E("return"))
                       /\ UNCHANGED <<next_page, all_items, page, pages>>
    /\ UNCHANGED <<consumeVars, streamVars, env, cpc, endpoint_known, args, sse_config,
                   copt, connector, params, data, attempt, item_index, successful, failed,
                   results, failures>>

\* time.sleep(wait_time) returns and the for loop takes the next attempt
BackoffDone ==
    /\ rpc \in {"fetch_sleep", "send_sleep"}
    /\ rpc' = IF rpc = "fetch_sleep" THEN "fetch_attempt" ELSE "send_attempt"
    /\ attempt' = attempt + 1
    /\ UNCHANGED <<consumeVars, streamVars, env, cpc, endpoint_known, args, sse_config,
                   copt, connector, params, data, last_exception, item_index, successful,
                   failed, results, failures, trace>>
    /\ UNCHANGED pageVars

\* mutant: a failed page empties what the walk had gathered
PageFailed_Empty(items) == <<>>

\* lines 409-413: any exception ends the walk, which returns all_items
PageFailed(items) == items

\* lines 339-413: one pass through "while next_page" of _handle_pagination;
\* the server names a further page only while the model's page bound allows
NextPage ==
    /\ rpc = "paginate"
    /\ LET pg == connector.pagination
           called == PageRequesting(trace, next_page)
       IN \/ \E exc \in env.open_errors :
               \* client.request raises
               /\ trace' = called \o <<EExc(exc), E("return")>>
               /\ rpc' = "returned"
               /\ result' = JList(PageFailed(all_items))
               /\ UNCHANGED <<next_page, all_items, page, pages>>
          \/ \E exc \in env.status_errors \cup env.read_errors :
               \* raise_for_status or response.json() raises
               /\ trace' = called \o <<E("response"), EExc(exc), E("return")>>
               /\ rpc' = "returned"
               /\ result' = JList(PageFailed(all_items))
               /\ UNCHANGED <<next_page, all_items, page, pages>>
          \/ \E page_data \in env.bodies :
               LET after == AfterPage(page_data, pg, page)
                   items == Accumulate(all_items, PageItems(page_data, pg))
               IN /\ Truthy(after.next_page) => pages + 1 < MaxPages
                  /\ all_items' = items
                  /\ next_page' = after.next_page
                  /\ page' = after.page
                  /\ pages' = pages + 1
                  /\ IF Truthy(after.next_page)
                     THEN /\ rpc' = rpc
                          /\ result' = result
                          /\ trace' = Append(called, EResponse(page_data))
                     ELSE /\ rpc' = "returned"
                          /\ result' = JList(items)
                          /\ trace' = called \o <<EResponse(page_data), E("return")>>
    /\ UNCHANGED <<consumeVars, streamVars, env, cpc, endpoint_known, args, sse_config,
                   copt, connector, params, data, attempt, last_exception, item_index,
                   successful, failed, results, failures>>

\* lines 1003-1046 and 1104-1106: the endpoint check, _prepare_request, the
\* request_schema validation of every item, the head of the loop that follows
SendStart ==
    /\ rpc = "send_init"
    /\ IF ~endpoint_known
       THEN /\ rpc' = "config_error"
            /\ trace' = Append(trace, E("value_error"))
            /\ UNCHANGED <<attempt, results>>
       ELSE IF ValidationRaises(connector, data)
       THEN /\ rpc' = "raised"
            /\ trace' = Append(trace, ERaise(ValidationError))
            /\ UNCHANGED <<attempt, results>>
       ELSE IF data.kind = "list"
       THEN /\ rpc' = IF data.items = <<>> THEN "returned" ELSE "batch"
            /\ trace' = IF data.items = <<>> THEN Append(trace, E("return")) ELSE trace
            /\ UNCHANGED <<attempt, results>>
       ELSE IF connector.retry_count >= 1
       THEN /\ rpc' = "send_attempt"
            /\ attempt' = 1
            /\ UNCHANGED <<trace, results>>
       ELSE \* line 1167: no attempt was made
            /\ rpc' = "returned"
            /\ results' = <<[success |-> FALSE]>>
            /\ trace' = Append(trace, E("return"))
            /\ attempt' = attempt
    /\ UNCHANGED <<consumeVars, streamVars, env, cpc, endpoint_known, args, sse_config,
                   copt, connector, params, data, last_exception, item_index, successful,
                   failed, failures>>
    /\ UNCHANGED pageVars

\* lines 1106-1139, one pass through the loop body of a single mapping, and
\* 1141-1164 after the last
SendAttempt ==
    /\ rpc = "send_attempt"
    /\ \/ \E exc \in env.open_errors :
            LET h == RetryHandler(exc, Append(Requesting(trace), EExc(exc)), attempt,
                                  connector, "send_sleep")
            IN /\ rpc' = h.rpc /\ trace' = h.trace /\ last_exception' = exc
               /\ results' = results
       \/ \E exc \in env.status_errors \cup env.read_errors :
            \* raise_for_status or response.json() raises
            LET h == RetryHandler(exc, Requesting(trace) \o <<E("response"), EExc(exc)>>,
                                  attempt, connector, "send_sleep")
            IN /\ rpc' = h.rpc /\ trace' = h.trace /\ last_exception' = exc
               /\ results' = results
       \/ /\ rpc' = "returned"
          /\ results' = <<[success |-> TRUE]>>
          /\ trace' = Requesting(trace) \o <<E("response"), E("return")>>
          /\ last_exception' = last_exception
    /\ UNCHANGED <<consumeVars, streamVars, env, cpc, endpoint_known, args, sse_config,
                   copt, connector, params, data, attempt, item_index, successful, failed,
                   failures>>
    /\ UNCHANGED pageVars

\* lines 1092-1099: the summary a batch returns
BatchSummary ==
    [success |-> successful > 0 /\ failed = 0,
     sent_count |-> successful,
     failed_count |-> failed,
     results |-> results,
     failures |-> failures]

\* bookkeeping of a failed item, lines 1088-1090
ItemFailed_Stop(n) == Len(data.items)
ItemFailed(n) == n + 1

\* lines 1048-1099: one pass through the batch loop for the item at
\* item_index, and the return after the last item
SendItem ==
    /\ rpc = "batch"
    /\ \/ \E exc \in env.open_errors :
            /\ failures' = Append(failures, [item_index |-> item_index,
                                             error |-> StructuredError(exc)])
            /\ failed' = failed + 1
            /\ item_index' = ItemFailed(item_index)
            /\ trace' = Append(Requesting(trace), EExc(exc))
                           \o (IF item_index' >= Len(data.items) THEN <<E("return")>>
                               ELSE <<>>)
            /\ UNCHANGED <<results, successful>>
       \/ \E exc \in env.status_errors \cup env.read_errors :
            /\ failures' = Append(failures, [item_index |-> item_index,
                                             error |-> StructuredError(exc)])
            /\ failed' = failed + 1
            /\ item_index' = ItemFailed(item_index)
            /\ trace' = Requesting(trace) \o <<E("response"), EExc(exc)>>
                           \o (IF item_index' >= Len(data.items) THEN <<E("return")>>
                               ELSE <<>>)
            /\ UNCHANGED <<results, successful>>
       \/ /\ results' = Append(results, [item_index |-> item_index])
          /\ successful' = successful + 1
          /\ item_index' = item_index + 1
          /\ trace' = Requesting(trace) \o <<E("response")>>
                         \o (IF item_index' >= Len(data.items) THEN <<E("return")>>
                             ELSE <<>>)
          /\ UNCHANGED <<failures, failed>>
    /\ rpc' = IF item_index' >= Len(data.items) THEN "returned" ELSE rpc
    /\ UNCHANGED <<consumeVars, streamVars, env, cpc, endpoint_known, args, sse_config,
                   copt, connector, params, data, attempt, last_exception>>
    /\ UNCHANGED pageVars

\* the params a caller may pass
CallParams ==
    {NoParams, SomeParams("q" :> 2), SomeParams("q" :> 3 @@ "r" :> 1)}

\* _prepare_request called on its own: lines 146-191; the caller may then
\* call again, with the same or with other params
PrepareRequest ==
    /\ rpc = "prepare_init"
    /\ IF ~endpoint_known
       THEN /\ rpc' = "config_error"
            /\ trace' = Append(trace, E("value_error"))
            /\ UNCHANGED <<connector, params>>
       ELSE /\ trace' = trace \o <<ECall("prepare_request", params, NoneStr),
                                    ERequest(prepare_request(connector, params)),
                                    E("return")>>
            /\ connector' = [connector EXCEPT
                               !.endpoint_params = EndpointParamsAfter(connector, params)]
            /\ IF Count(trace', "request") < MaxCalls
               THEN rpc' = rpc /\ params' \in CallParams
               ELSE rpc' = "returned" /\ params' = params
    /\ UNCHANGED <<consumeVars, streamVars, env, cpc, endpoint_known, args, sse_config,
                   copt, data, attempt, last_exception, item_index,
                   successful, failed, results, failures>>
    /\ UNCHANGED pageVars

\* _build_sse_request called on its own: lines 541-559
BuildSseRequest ==
    /\ rpc = "prepare_init"
    /\ endpoint_known
    /\ \E lei \in {NoneStr, SomeStr(<<>>), SomeStr(<<"7">>)} :
         LET req == prepare_request(connector, params)
         IN trace' = trace \o <<ECall("build_sse_request", params, lei),
                                 ERequest([req EXCEPT
                                     !.headers = build_sse_headers(req.headers, lei)]),
                                 E("return")>>
    /\ connector' = [connector EXCEPT
                       !.endpoint_params = EndpointParamsAfter(connector, params)]
    /\ IF Count(trace', "request") < MaxCalls
       THEN rpc' = rpc /\ params' \in CallParams
       ELSE rpc' = "returned" /\ params' = params
    /\ UNCHANGED <<consumeVars, streamVars, env, cpc, endpoint_known, args, sse_config,
                   copt, data, attempt, last_exception, item_index,
                   successful, failed, results, failures>>
    /\ UNCHANGED pageVars

(***************************************************************************)
(* Specification of one stream_sse invocation.                             *)
(***************************************************************************)
StreamArgs ==
    {[NoArgs EXCEPT !.max_events = me, !.reconnect = rc, !.reconnect_delay = rd,
                    !.max_reconnect_attempts = mr] :
        me \in {NoneInt, SomeInt(0), SomeInt(1), SomeInt(2)},
        rc \in {NoneBool, SomeBool(FALSE)},
        rd \in {NoneInt},
        mr \in {NoneInt, SomeInt(0), SomeInt(1)}}

StreamEnv ==
    Env({L_blank, L_data, L_id1, L_retry},
        {ExcTransport},
        {ExcHttp(503, 1500, TRUE), ExcHttp(404, 20, FALSE)},
        {ExcTimeout})

InitLocals ==
    /\ pc = "init"
    /\ opt = NoOpt
    /\ copt = NoCopt
    /\ reconnect_attempts = 0
    /\ received_events = 0
    /\ last_event_id = NoneStr
    /\ effective_reconnect_delay = 0
    /\ pending_lines = <<>>
    /\ request = NoRequest
    /\ conn_open = 0
    /\ lines_read = 0
    /\ conns = 0
    /\ trace = <<>>
    /\ arrived = 0
    /\ buffer = <<>>
    /\ dropped_events = 0
    /\ processed_events = 0
    /\ chunks_processed = 0
    /\ chunk_results = <<>>

\* no fetch_data or send_data call is under way
InitCallIdle ==
    /\ connector = DefaultConnector
    /\ params = NoParams
    /\ data = NoPayload
    /\ rpc = "none"
    /\ InitCallLocals

Init ==
    /\ env = StreamEnv
    /\ endpoint_known \in BOOLEAN
    /\ args \in StreamArgs
    /\ sse_config = EmptyCfg
    /\ cpc = "none"
    /\ InitLocals
    /\ InitCallIdle

\* a stream whose ids change, become empty, and whose connections end
ResumeEnv ==
    Env({L_blank, L_data, L_id1, L_id2, L_idEmpty},
        {ExcTransport}, {ExcHttp(503, 1500, TRUE)}, {ExcTransport})

InitResume ==
    /\ env = ResumeEnv
    /\ endpoint_known = TRUE
    /\ args \in {NoArgs, [NoArgs EXCEPT !.max_reconnect_attempts = SomeInt(1)]}
    /\ sse_config = EmptyCfg
    /\ cpc = "none"
    /\ InitLocals
    /\ InitCallIdle

\* reconnect delays of either sign, and retry hints that replace each other
L_retry7 == <<"r", "e", "t", "r", "y", ":", " ", "7">>

DelayEnv ==
    Env({L_blank, L_data, L_retry, L_retry7},
        {ExcTransport}, {ExcHttp(503, 1500, TRUE)}, {ExcTransport})

InitDelay ==
    /\ env = DelayEnv
    /\ endpoint_known = TRUE
    /\ args \in {[NoArgs EXCEPT !.reconnect_delay = rd] :
                    rd \in {NoneInt, SomeInt(0 - 1), SomeInt(2)}}
    /\ sse_config = EmptyCfg
    /\ cpc = "none"
    /\ InitLocals
    /\ InitCallIdle

\* the options a caller may pass and an endpoint's sse dict may hold
OptInts(vals) == {NoneInt} \cup {SomeInt(v) : v \in vals}
OptBools == {NoneBool, SomeBool(TRUE), SomeBool(FALSE)}
OptPolicies == {NonePolicy} \cup {SomePolicy(p) : p \in {"block", "DROP_OLDEST", "newest"}}

StreamOptionSets ==
    {[NoArgs EXCEPT !.max_events = me, !.reconnect = rc, !.reconnect_delay = rd,
                    !.max_reconnect_attempts = mr, !.read_timeout = rt,
                    !.decode_json = dj] :
        me \in OptInts({2}), rc \in OptBools, rd \in OptInts({0, 2}),
        mr \in OptInts({1}), rt \in OptInts({5}), dj \in OptBools}

ConsumeOptionSets ==
    {[NoArgs EXCEPT !.max_events = me, !.chunk_size = cs,
                    !.backpressure_buffer_size = bs, !.drop_policy = dp] :
        me \in OptInts({2}), cs \in OptInts({0, 2}), bs \in OptInts({0, 3}),
        dp \in OptPolicies}

InitResolve ==
    /\ env = StreamEnv
    /\ endpoint_known = TRUE
    /\ InitLocals
    /\ InitCallIdle
    /\ \/ cpc = "none" /\ args \in StreamOptionSets /\ sse_config \in StreamOptionSets
       \/ cpc = "init" /\ args \in ConsumeOptionSets /\ sse_config \in ConsumeOptionSets

NextResolve ==
    \/ Start
    \/ ConsumeStart

Next ==
    \/ Start
    \/ ConnectFail
    \/ ConnectStatus
    \/ ConnectOK
    \/ ReadLine
    \/ StreamEnd
    \/ ReadError
    \/ Resume
    \/ GenClose
    \/ SleepDone

Spec == Init /\ [][Next]_vars

SpecResume == InitResume /\ [][Next]_vars

SpecDelay == InitDelay /\ [][Next]_vars

SpecResolve == InitResolve /\ [][NextResolve]_vars

(***************************************************************************)
(* Specification of one consume_sse call over a stream that yields events  *)
(* numbered by arrival, ends, or raises.                                   *)
(***************************************************************************)
ConsumeEnv == Env({}, {ExcTransport}, {}, {})

ConsumeArgs ==
    {[NoArgs EXCEPT !.chunk_size = SomeInt(cs), !.backpressure_buffer_size = SomeInt(bs),
                    !.drop_policy = SomePolicy(dp)] :
        cs \in 0..3, bs \in 0..3, dp \in {"block", "drop_oldest", "newest"}}

InitConsume ==
    /\ env = ConsumeEnv
    /\ endpoint_known \in BOOLEAN
    /\ args \in ConsumeArgs
    /\ sse_config = EmptyCfg
    /\ cpc = "init"
    /\ InitLocals
    /\ InitCallIdle

NextConsume ==
    \/ ConsumeStart
    \/ ConsumeEvent
    \/ ConsumeEnd
    \/ ConsumeStreamError

SpecConsume == InitConsume /\ [][NextConsume]_vars

(***************************************************************************)
(* Specification of one _prepare_request, fetch_data or send_data call.    *)
(***************************************************************************)
CallEnv == Env({}, {ExcTransport}, {ExcHttp(503, 1500, TRUE)}, {ExcOther})

Connectors(counts, delays, paginations, schemas) ==
    {[DefaultConnector EXCEPT !.retry_count = rc, !.retry_delay = rd,
                              !.pagination = pg, !.request_schema = rs] :
        rc \in counts, rd \in delays, pg \in paginations, rs \in schemas}

\* the lists of at most n items, each valid or not
RECURSIVE ItemLists(_)
ItemLists(n) ==
    IF n = 0 THEN {<<>>}
    ELSE ItemLists(n - 1)
         \cup {Append(l, Item(v)) : l \in {k \in ItemLists(n - 1) : Len(k) = n - 1},
                                    v \in BOOLEAN}

InitCall ==
    /\ env = CallEnv
    /\ params = NoParams
    /\ endpoint_known \in BOOLEAN
    /\ args = NoArgs
    /\ sse_config = EmptyCfg
    /\ cpc = "none"
    /\ InitLocals
    /\ InitCallLocals
    /\ \/ /\ rpc = "prepare_init"
          /\ connector = DefaultConnector
          /\ data = NoPayload
       \/ /\ rpc = "fetch_init"
          /\ connector \in Connectors(0..MaxRetryCount, {1, 2},
                                     {NoPagination, LinkPagination}, {FALSE})
          /\ data = NoPayload
       \/ /\ rpc = "send_init"
          /\ connector \in Connectors(0..MaxRetryCount, {1, 2}, {NoPagination}, BOOLEAN)
          /\ data \in {SinglePayload(Item(v)) : v \in BOOLEAN}
       \/ /\ rpc = "send_init"
          /\ connector \in Connectors({3}, {1}, {NoPagination}, BOOLEAN)
          /\ data \in {ListPayload(l) : l \in ItemLists(MaxItems)}

NextCall ==
    \/ PrepareRequest
    \/ FetchStart
    \/ FetchAttempt
    \/ BackoffDone
    \/ NextPage
    \/ SendStart
    \/ SendAttempt
    \/ SendItem

SpecCall == InitCall /\ [][NextCall]_vars

(***************************************************************************)
(* Specification of a call of any of the connector's operations, on an     *)
(* endpoint that may not be registered and with consume_sse options that   *)
(* may be invalid.                                                         *)
(***************************************************************************)
ConfigStreamEnv ==
    Env({L_blank, L_data}, {ExcTransport}, {ExcHttp(503, 1500, TRUE)}, {ExcTimeout})

ConfigSseConfigs ==
    {EmptyCfg, [EmptyCfg EXCEPT !.chunk_size = SomeInt(0)],
     [EmptyCfg EXCEPT !.chunk_size = SomeInt(2)]}

InitConfig ==
    /\ endpoint_known \in BOOLEAN
    /\ params = NoParams
    /\ InitLocals
    /\ InitCallLocals
    /\ \/ /\ cpc = "none" /\ rpc = "none"
          /\ env = ConfigStreamEnv
          /\ args = NoArgs /\ sse_config = EmptyCfg
          /\ connector = DefaultConnector /\ data = NoPayload
       \/ /\ cpc = "init" /\ rpc = "none"
          /\ env = ConsumeEnv
          /\ args \in ConsumeArgs /\ sse_config \in ConfigSseConfigs
          /\ connector = DefaultConnector /\ data = NoPayload
       \/ /\ cpc = "none" /\ rpc \in {"prepare_init", "fetch_init"}
          /\ env = CallEnv
          /\ args = NoArgs /\ sse_config = EmptyCfg
          /\ connector \in Connectors({2}, {1}, {NoPagination, LinkPagination}, {FALSE})
          /\ data = NoPayload
       \/ /\ cpc = "none" /\ rpc = "send_init"
          /\ env = CallEnv
          /\ args = NoArgs /\ sse_config = EmptyCfg
          /\ connector \in Connectors({2}, {1}, {NoPagination}, BOOLEAN)
          /\ data \in {SinglePayload(Item(TRUE)), ListPayload(<<Item(TRUE), Item(FALSE)>>)}

NextConfig ==
    \/ Start
    \/ ConnectFail
    \/ ConnectStatus
    \/ ConnectOK
    \/ ReadLine
    \/ StreamEnd
    \/ ReadError
    \/ Resume
    \/ GenClose
    \/ SleepDone
    \/ ConsumeStart
    \/ ConsumeEvent
    \/ ConsumeEnd
    \/ ConsumeStreamError
    \/ PrepareRequest
    \/ FetchStart
    \/ FetchAttempt
    \/ BackoffDone
    \/ NextPage
    \/ SendStart
    \/ SendAttempt
    \/ SendItem

SpecConfig == InitConfig /\ [][NextConfig]_vars

(***************************************************************************)
(* Specification of fetch_data and single-mapping send_data calls whose    *)
(* every failure kind occurs: the exceptions _categorize_error tells       *)
(* apart.  raise_for_status raises for every status outside 2xx.           *)
(***************************************************************************)
CategorizeStatuses == {304, 400, 401, 403, 404, 422, 429, 500, 503}

CategorizeEnv ==
    Env({}, {ExcTransport, ExcTimeout},
        {ExcHttp(st, 20, TRUE) : st \in CategorizeStatuses}, {ExcOther})

InitCategorize ==
    /\ env = CategorizeEnv
    /\ endpoint_known = TRUE
    /\ args = NoArgs
    /\ sse_config = EmptyCfg
    /\ cpc = "none"
    /\ InitLocals
    /\ InitCallLocals
    /\ connector \in Connectors({1, 2}, {1}, {NoPagination}, {FALSE})
    /\ params = NoParams
    /\ \/ rpc = "fetch_init" /\ data = NoPayload
       \/ rpc = "send_init" /\ data = SinglePayload(Item(TRUE))

NextCategorize ==
    \/ FetchStart
    \/ FetchAttempt
    \/ BackoffDone
    \/ SendStart
    \/ SendAttempt

SpecCategorize == InitCategorize /\ [][NextCategorize]_vars

(***************************************************************************)
(* Specification of stream_sse invocations over data lines whose joined    *)
(* payload is or is not a JSON text, with decode_json passed or not.       *)
(***************************************************************************)
L_data12 == <<"d", "a", "t", "a", ":", " ", "1", "2">>
L_dataEmpty == <<"d", "a", "t", "a", ":">>
L_comment == <<":", "k">>

ParseEnv ==
    Env({L_blank, L_data, L_data12, L_dataEmpty, L_comment},
        {ExcTransport}, {ExcHttp(503, 1500, TRUE)}, {ExcTimeout})

ParseArgs ==
    {[NoArgs EXCEPT !.decode_json = dj, !.reconnect = rc,
                    !.max_reconnect_attempts = SomeInt(1)] :
        dj \in {NoneBool, SomeBool(TRUE), SomeBool(FALSE)},
        rc \in {NoneBool, SomeBool(FALSE)}}

InitParse ==
    /\ env = ParseEnv
    /\ endpoint_known = TRUE
    /\ args \in ParseArgs
    /\ sse_config = EmptyCfg
    /\ cpc = "none"
    /\ InitLocals
    /\ InitCallIdle

SpecParse == InitParse /\ [][Next]_vars

(***************************************************************************)
(* fetch_data over an endpoint with a response_path.                       *)
(***************************************************************************)
\* JSON bodies for the response_path walk: the path "a.b" is present, misses
\* its second part, misses its first part, or runs into a scalar; and a list
ResponseBodies ==
    {JDict("a" :> JDict("b" :> JInt(1))),
     JDict("a" :> JDict("b" :> JDict("c" :> JInt(2)))),
     JDict("a" :> JDict("c" :> JInt(1))),
     JDict("c" :> JInt(1)),
     JDict("a" :> JInt(5)),
     JList(<<JInt(1)>>)}

\* endpoint.response_path: None, "a", "a.b"
ResponsePaths == {<<>>, <<"a">>, <<"a", ".", "b">>}

ResponseEnv == WithBodies(CallEnv, ResponseBodies)

InitResponse ==
    /\ env = ResponseEnv
    /\ endpoint_known = TRUE
    /\ params = NoParams
    /\ args = NoArgs
    /\ sse_config = EmptyCfg
    /\ cpc = "none"
    /\ InitLocals
    /\ InitCallLocals
    /\ rpc = "fetch_init"
    /\ connector \in {[c EXCEPT !.response_path = rp] :
                         c \in Connectors({2, 3}, {1, 2}, {NoPagination}, {FALSE}),
                         rp \in ResponsePaths}
    /\ data = NoPayload

NextResponse ==
    \/ FetchStart
    \/ FetchAttempt
    \/ BackoffDone

SpecResponse == InitResponse /\ [][NextResponse]_vars

(***************************************************************************)
(* fetch_data over a paginated endpoint.                                   *)
(***************************************************************************)
ItemA == JDict("k" :> JInt(1))
ItemB == JDict("k" :> JInt(2))

\* what a page may carry at "n": "t", 7, "", 0, true, null, a list
PageTokens ==
    {JStr(1), JInt(7), JStr(0), JInt(0), JBool(TRUE), JNull, JList(<<>>)}

\* the pages a server may answer with: one or two items at "i", with a
\* token at "n" or without; and a page that has no "i"
PaginateBodies ==
    {Page(items, token) : items \in {<<ItemA>>, <<ItemB, JInt(3)>>}, token \in PageTokens}
    \cup {LastPage(items) : items \in {<<ItemA>>, <<ItemB, JInt(3)>>}}
    \cup {JDict("n" :> JStr(1))}

PaginateEnv == WithBodies(CallEnv, PaginateBodies)

InitPaginate ==
    /\ env = PaginateEnv
    /\ endpoint_known = TRUE
    /\ params = NoParams
    /\ args = NoArgs
    /\ sse_config = EmptyCfg
    /\ cpc = "none"
    /\ InitLocals
    /\ InitCallLocals
    /\ rpc = "fetch_init"
    /\ connector \in Connectors({1, 2}, {1},
                                 {LinkPagination, ShortLinkPagination, CounterPagination},
                                 {FALSE})
    /\ data = NoPayload

NextPaginate ==
    \/ FetchStart
    \/ FetchAttempt
    \/ BackoffDone
    \/ NextPage

SpecPaginate == InitPaginate /\ [][NextPaginate]_vars

(***************************************************************************)
(* _prepare_request and _build_sse_request called in any order.            *)
(***************************************************************************)
\* connector default headers and endpoint headers that collide with each
\* other and with the headers the auth configuration sets
DefaultHeaderSets ==
    {<<>>, "A" :> <<"d">> @@ "B" :> <<"d">> @@ "Authorization" :> <<"d">>}
EndpointHeaderSets ==
    {<<>>, "B" :> <<"e">> @@ "X-API-Key" :> <<"e">> @@ "Accept" :> <<"e">>}
AuthConfigs ==
    {NoAuth, BearerAuth(<<"t">>), ApiKeyAuth(TRUE, "X-API-Key", <<"k">>),
     ApiKeyAuth(FALSE, "X-API-Key", <<"k">>)}

PrepareConnectors ==
    {[DefaultConnector EXCEPT !.default_headers = dh, !.endpoint_headers = eh,
                              !.auth_config = au,
                              !.endpoint_params = "q" :> 1 @@ "s" :> 1,
                              !.body_template = JDict("b" :> JInt(1))] :
        dh \in DefaultHeaderSets, eh \in EndpointHeaderSets, au \in AuthConfigs}

InitPrepare ==
    /\ env = CallEnv
    /\ endpoint_known = TRUE
    /\ params \in CallParams
    /\ args = NoArgs
    /\ sse_config = EmptyCfg
    /\ cpc = "none"
    /\ InitLocals
    /\ InitCallLocals
    /\ rpc = "prepare_init"
    /\ connector \in PrepareConnectors
    /\ data = NoPayload

NextPrepare ==
    \/ PrepareRequest
    \/ BuildSseRequest

SpecPrepare == InitPrepare /\ [][NextPrepare]_vars

(***************************************************************************)
(* Specification of stream_sse invocations over control lines: ids with    *)
(* and without a NUL character, retry values that are numbers, negative    *)
(* numbers or no numbers.                                                  *)
(***************************************************************************)
L_idNul == <<"i", "d", ":", " ", "2", "NUL">>
L_retryNeg == <<"r", "e", "t", "r", "y", ":", " ", "-", "5">>
L_retryBad == <<"r", "e", "t", "r", "y", ":", " ", "x">>

NoiseEnv ==
    Env({L_blank, L_data, L_id1, L_idNul, L_retry, L_retryNeg, L_retryBad},
        {ExcTransport}, {ExcHttp(503, 1500, TRUE)}, {ExcTimeout})

InitNoise ==
    /\ env = NoiseEnv
    /\ endpoint_known = TRUE
    /\ args = [NoArgs EXCEPT !.max_reconnect_attempts = SomeInt(1)]
    /\ sse_config = EmptyCfg
    /\ cpc = "none"
    /\ InitLocals
    /\ InitCallIdle

SpecNoise == InitNoise /\ [][Next]_vars

(***************************************************************************)
(* Specification of stream_sse invocations with a limit on reconnect       *)
(* attempts, run to their end: the caller keeps asking for events (or      *)
(* closes the generator), every sleep returns and every connection ends.   *)
(***************************************************************************)
AttemptsEnv ==
    Env({L_blank, L_data}, {ExcTransport}, {ExcHttp(503, 1500, TRUE)}, {ExcTimeout})

AttemptsArgs ==
    {[NoArgs EXCEPT !.max_reconnect_attempts = SomeInt(mr), !.max_events = me] :
        mr \in {0 - 1, 0, 1}, me \in {NoneInt, SomeInt(1)}}

InitAttempts ==
    /\ env = AttemptsEnv
    /\ endpoint_known = TRUE
    /\ args \in AttemptsArgs
    /\ sse_config = EmptyCfg
    /\ cpc = "none"
    /\ InitLocals
    /\ InitCallIdle

SpecAttempts == InitAttempts /\ [][Next]_vars /\ WF_vars(Next)

(***************************************************************************)
(* Reading the trace.                                                      *)
(***************************************************************************)
Has(es, name) == \E i \in 1..Len(es) : es[i].op = name
Last(es) == es[Len(es)]
\* what the step under consideration appended to the trace
NewEntries == SubSeq(trace', Len(trace) + 1, Len(trace'))
TheExc(es) == es[CHOOSE i \in 1..Len(es) : es[i].op = "exc"].exc
Started == pc \notin {"init", "config_error"}
WithinLimit(n) ==
    ~opt.max_reconnect_attempts.set \/ n <= opt.max_reconnect_attempts.val

(***************************************************************************)
(* The wire as an observer reads it from the trace: the lines of a         *)
(* connection are grouped into blocks, a block ending at a blank line or   *)
(* at the end of the stream; an exception drops the unfinished block.      *)
(***************************************************************************)
IsTerminator(e) ==
    \/ e.op = "eos"
    \/ e.op = "line" /\ RstripCR(e.line) = <<>>

\* the lines pending after the first n entries of tr, read back from entry n
\* to the last reset of pending_lines
RECURSIVE PendingAfter(_, _)
PendingAfter(tr, n) ==
    IF n = 0 THEN <<>>
    ELSE IF tr[n].op \in {"open", "exc"} \/ IsTerminator(tr[n]) THEN <<>>
    ELSE IF tr[n].op = "line"
    THEN Append(PendingAfter(tr, n - 1), RstripCR(tr[n].line))
    ELSE PendingAfter(tr, n - 1)

\* the block that the terminator tr[j] ends (possibly empty)
BlockEndedAt(tr, j) == PendingAfter(tr, j - 1)

\* the indices of the terminators among the first n entries that end a
\* non-empty block
BlockEnds(tr, n) ==
    {j \in 1..n : IsTerminator(tr[j]) /\ BlockEndedAt(tr, j) # <<>>}

\* what a block says, field by field
BlockFields(block) == ParseLines(ParseInit, block)
BlockHasData(block) == \E k \in 1..Len(block) : SplitField(block[k]).field = F_data

\* the id most recently received in a block ended among the first n entries
RECURSIVE MostRecentId(_, _)
MostRecentId(tr, n) ==
    IF n = 0 THEN NoneStr
    ELSE IF IsTerminator(tr[n]) /\ BlockFields(BlockEndedAt(tr, n)).event_id.set
    THEN BlockFields(BlockEndedAt(tr, n)).event_id
    ELSE MostRecentId(tr, n - 1)

\* the retry hint most recently received in a block ended among the first n
RECURSIVE MostRecentRetry(_, _)
MostRecentRetry(tr, n) ==
    IF n = 0 THEN NoneInt
    ELSE IF IsTerminator(tr[n]) /\ BlockFields(BlockEndedAt(tr, n)).retry_ms.set
    THEN BlockFields(BlockEndedAt(tr, n)).retry_ms
    ELSE MostRecentRetry(tr, n - 1)

\* the trace only grows: what was observed stays as it was observed
TraceGrows ==
    /\ Len(trace') >= Len(trace)
    /\ SubSeq(trace', 1, Len(trace)) = trace

\* the positions of the entries the step under consideration appended
NewIndices == (Len(trace) + 1)..Len(trace')

RequestsBefore(tr, i) == {j \in 1..(i - 1) : tr[j].op = "request"}

(***************************************************************************)
(* C1: with reconnect enabled, every exception raised while opening or     *)
(* reading the stream adds one to the reconnect attempt count; while the   *)
(* count does not exceed max_reconnect_attempts (or no limit is set) the   *)
(* call sleeps exactly once for effective_reconnect_delay and the next     *)
(* thing it does is a new connection; once the count exceeds the limit it  *)
(* raises a structured error with the category of that last exception      *)
(* (NETWORK for a transport error) and does not sleep.                     *)
(***************************************************************************)
C1_ExceptionStep ==
    (Started /\ opt.reconnect /\ Has(NewEntries, "exc")) =>
        LET es == NewEntries
            exc == TheExc(es)
        IN /\ Count(es, "exc") = 1
           /\ reconnect_attempts' = reconnect_attempts + 1
           /\ IF WithinLimit(reconnect_attempts')
              THEN /\ pc' = "sleep_exc"
                   /\ Count(es, "sleep") = 1
                   /\ Count(es, "raise") = 0
                   /\ Last(es) = ESleep(effective_reconnect_delay')
              ELSE /\ pc' = "raised"
                   /\ Count(es, "sleep") = 0
                   /\ Count(es, "raise") = 1
                   /\ Last(es).op = "raise"
                   /\ Last(es).error.error_category = categorize_error(exc).category
                   /\ (exc.kind = "transport" =>
                          Last(es).error.error_category = "NETWORK")

C1_SleepThenConnect ==
    \A i \in 1..Len(trace) :
        (trace[i].op = "sleep" /\ i < Len(trace)) =>
            /\ Len(trace) >= i + 3
            /\ trace[i + 1].op = "request"
            /\ trace[i + 2].op = "acquire"
            /\ trace[i + 3].op = "call"

C1_ReconnectOnException == [][C1_ExceptionStep]_vars /\ []C1_SleepThenConnect

\* a failure, one sleep, a second failure beyond the limit: NETWORK is raised
C1_Witness ==
    /\ pc = "raised"
    /\ opt.reconnect
    /\ opt.max_reconnect_attempts = SomeInt(1)
    /\ Count(trace, "sleep") = 1
    /\ Count(trace, "exc") = 2
    /\ Last(trace).error.error_category = "NETWORK"

(***************************************************************************)
(* C2: with reconnect disabled the invocation opens exactly one connection *)
(* and never sleeps; an exception on that connection is raised at once as  *)
(* a categorized error carrying endpoint, URL, method and the response     *)
(* body cut to 1000 characters; a clean end of the stream ends the         *)
(* generator without any error.                                            *)
(***************************************************************************)
C2_NoReconnect ==
    (Started /\ ~opt.reconnect) =>
        /\ conns <= 1
        /\ (pc # "connect" => conns = 1)
        /\ Count(trace, "sleep") = 0
        /\ \A i \in 1..Len(trace) :
            trace[i].op = "exc" =>
                LET exc == trace[i].exc
                    err == Last(trace).error
                IN /\ pc = "raised"
                   /\ Last(trace).op = "raise"
                   /\ \A j \in (i + 1)..(Len(trace) - 1) : trace[j].op = "release"
                   /\ err.error_category = categorize_error(exc).category
                   /\ err.status_code = categorize_error(exc).status_code
                   /\ err.endpoint = EndpointName
                   /\ err.request_url = EndpointPath
                   /\ err.request_method = EndpointMethod
                   /\ err.response_body.len <= 1000
                   /\ (exc.kind = "http" /\ exc.body_readable =>
                          err.response_body =
                              [kind |-> "text",
                               len |-> IF exc.body_len > 1000 THEN 1000
                                       ELSE exc.body_len])
        /\ (Has(trace, "eos") =>
                /\ pc \in {"yielded_flush", "done", "closed"}
                /\ ~Has(trace, "raise"))

\* a 503 whose body of 1500 characters reaches the error cut to 1000
C2_Witness ==
    /\ pc = "raised"
    /\ ~opt.reconnect
    /\ Last(trace).op = "raise"
    /\ Last(trace).error.error_category = "SERVER"
    /\ Last(trace).error.response_body = [kind |-> "text", len |-> 1000]

(***************************************************************************)
(* C3: within one invocation the first connection carries no Last-Event-ID *)
(* header, and every later request carries Last-Event-ID equal to the most *)
(* recent id received on an earlier connection, dispatched or not.  An     *)
(* empty id, the most recent one received, is read in the claim's favour:  *)
(* the header may then be empty or absent.                                 *)
(***************************************************************************)
C3_ResumeHeader ==
    \A i \in 1..Len(trace) :
        trace[i].op = "request" =>
            LET hdr == trace[i].request.last_event_id
                m == MostRecentId(trace, i - 1)
            IN IF RequestsBefore(trace, i) = {} THEN ~hdr.set
               ELSE IF ~m.set THEN ~hdr.set
               ELSE IF m.val = <<>> THEN (~hdr.set \/ hdr.val = <<>>)
               ELSE hdr = m

(***************************************************************************)
(* C4: stream_sse never yields an event built from a block without a data  *)
(* field: whenever an event is yielded, the entry before it is the end of  *)
(* a block with at least one data line (so a retry-only or id-only block   *)
(* is never followed by a yield), and the event has no has_data key.       *)
(***************************************************************************)
C4_YieldStep ==
    \A i \in NewIndices :
        trace'[i].op = "yield" =>
            /\ i > 1
            /\ IsTerminator(trace'[i - 1])
            /\ BlockHasData(BlockEndedAt(trace', i - 1))
            /\ "has_data" \notin DOMAIN trace'[i].event
            /\ trace'[i].event.data.kind # "none"

C4_OnlyDataBlocksYielded == [][TraceGrows /\ C4_YieldStep]_vars

\* a control block went by unemitted and a data block was yielded
C4_Witness ==
    /\ Has(trace, "yield")
    /\ \E j \in BlockEnds(trace, Len(trace)) : ~BlockHasData(BlockEndedAt(trace, j))

(***************************************************************************)
(* C6: for every max_events value m >= 0 one invocation yields at most m   *)
(* events over all its connections, and after the m-th event it reads no   *)
(* further line, does not sleep and does not reconnect.                    *)
(***************************************************************************)
YieldIndex(tr, k) ==
    CHOOSE i \in 1..Len(tr) :
        tr[i].op = "yield" /\ Cardinality({j \in 1..i : tr[j].op = "yield"}) = k

C6_MaxEvents ==
    (Started /\ opt.max_events.set) =>
        LET m == opt.max_events.val IN
        /\ Count(trace, "yield") <= m
        /\ (m >= 1 /\ Count(trace, "yield") = m) =>
              \A j \in (YieldIndex(trace, m) + 1)..Len(trace) :
                  trace[j].op \notin {"line", "eos", "sleep", "request", "call"}

(***************************************************************************)
(* C7: events are yielded in exactly the order in which the end of their   *)
(* block (blank line, or end of stream for a trailing block) was observed, *)
(* within a connection and across reconnects: the event of a block with    *)
(* data is yielded directly after the end of that block, before anything   *)
(* else is read or done, nothing else is ever yielded, and what has been   *)
(* yielded stays where it is.                                              *)
(***************************************************************************)
\* the public shape of the event a block with data stands for
EventOf(block) == PopHasData(parse_sse_event(block, opt.decode_json).ev)

C7_OrderStep ==
    \A j \in NewIndices :
        /\ (IsTerminator(trace'[j]) /\ BlockHasData(BlockEndedAt(trace', j))) =>
              /\ j < Len(trace')
              /\ trace'[j + 1] = EYield(EventOf(BlockEndedAt(trace', j)))
        /\ trace'[j].op = "yield" =>
              /\ j > 1
              /\ IsTerminator(trace'[j - 1])
              /\ BlockHasData(BlockEndedAt(trace', j - 1))

C7_WireOrder == [][TraceGrows /\ C7_OrderStep]_vars

\* two different events, yielded on two connections
C7_Witness ==
    \E i, j \in 1..Len(trace) :
        /\ i < j
        /\ trace[i].op = "yield"
        /\ trace[j].op = "yield"
        /\ trace[i].event # trace[j].event
        /\ \E k \in (i + 1)..(j - 1) : trace[k].op = "request"

(***************************************************************************)
(* C8: with reconnect enabled a clean closure of the stream is handled as  *)
(* a recoverable failure is: it adds one to the same attempt counter, the  *)
(* same limit applies to it, and within the limit the call sleeps          *)
(* effective_reconnect_delay once and reconnects with the latest           *)
(* last_event_id.                                                          *)
(***************************************************************************)
\* the step in which a connection that ended without exception is left,
\* not because max_events was reached and not because the caller closed it
IsCleanClosure ==
    /\ Started
    /\ pc \in {"stream", "yielded_flush"}
    /\ pc' \notin {"closed", "yielded_flush", "yielded_loop", "stream"}
    /\ ~Has(NewEntries, "exc")
    /\ ~(pc = "yielded_flush" /\ MaxReached(received_events))

C8_ClosureStep ==
    (opt.reconnect /\ IsCleanClosure) =>
        /\ reconnect_attempts' = reconnect_attempts + 1
        /\ Count(NewEntries, "raise") = 0
        /\ IF WithinLimit(reconnect_attempts')
           THEN /\ pc' = "sleep_close"
                /\ Count(NewEntries, "sleep") = 1
                /\ Last(NewEntries) = ESleep(effective_reconnect_delay')
           ELSE /\ pc' = "done"
                /\ Count(NewEntries, "sleep") = 0

C8_ReconnectStep ==
    (pc = "connect" /\ Has(NewEntries, "request")) =>
        /\ NewEntries[1].op = "request"
        /\ NewEntries[1].request.last_event_id =
              IF last_event_id.set /\ last_event_id.val # <<>> THEN last_event_id
              ELSE NoneStr
        /\ (trace # <<>> => Last(trace).op = "sleep")

C8_CleanClosureReconnects == [][C8_ClosureStep /\ C8_ReconnectStep]_vars

\* a failure and a clean closure, counted together, exhaust a limit of one
C8_Witness ==
    /\ pc = "done"
    /\ opt.reconnect
    /\ opt.max_reconnect_attempts = SomeInt(1)
    /\ reconnect_attempts = 2
    /\ Count(trace, "exc") = 1
    /\ Count(trace, "eos") = 1
    /\ Count(trace, "sleep") = 1

(***************************************************************************)
(* C5: a block with retry: N (N a non-negative integer), also one with no  *)
(* data and no id, is not emitted by itself but sets the reconnect delay   *)
(* to N/1000 seconds: every reconnect sleep after it lasts N ms until a    *)
(* later hint replaces it.  Before any hint the sleep lasts the configured *)
(* reconnect_delay (C5_SleepDelay_AsClaimed), which the code lowers to     *)
(* zero when it is negative (C5_SleepDelay).                               *)
(***************************************************************************)
\* initial_ms: how long a sleep lasts before any hint
C5_DelayStep(initial_ms) ==
    \A i \in NewIndices :
        /\ trace'[i].op = "sleep" =>
              LET hint == MostRecentRetry(trace', i - 1)
              IN trace'[i].ms = IF hint.set THEN hint.val ELSE initial_ms
        /\ (/\ trace'[i].op = "yield"
            /\ i > 1
            /\ IsTerminator(trace'[i - 1])
            /\ BlockFields(BlockEndedAt(trace', i - 1)).retry_ms.set) =>
              BlockHasData(BlockEndedAt(trace', i - 1))

C5_SleepDelay_AsClaimed ==
    [][Started => (TraceGrows /\ C5_DelayStep(1000 * opt.reconnect_delay))]_vars

C5_SleepDelay ==
    [][Started => (TraceGrows /\ C5_DelayStep(IF opt.reconnect_delay < 0 THEN 0
                                              ELSE 1000 * opt.reconnect_delay))]_vars

\* a sleep of the configured 2 s, then a retry-only block, then a sleep of 5 ms
C5_Witness ==
    \E i, j \in 1..Len(trace) :
        /\ i < j
        /\ trace[i] = ESleep(2000)
        /\ trace[j] = ESleep(5)
        /\ ~Has(trace, "yield")

(***************************************************************************)
(* C9: each of max_events, reconnect, reconnect_delay,                     *)
(* max_reconnect_attempts, read_timeout and decode_json is resolved as     *)
(* call argument > endpoint sse config > built-in default; a value the     *)
(* caller passes is the one used.                                          *)
(***************************************************************************)
Precedence(a, c, default) == IF a.set THEN a.val ELSE IF c.set THEN c.val ELSE default
PrecedenceOpt(a, c) == IF a.set THEN a ELSE c

C9_StreamPrecedence ==
    (cpc = "none" /\ Started) =>
        /\ opt.max_events = PrecedenceOpt(args.max_events, sse_config.max_events)
        /\ opt.reconnect = Precedence(args.reconnect, sse_config.reconnect, TRUE)
        /\ opt.reconnect_delay =
              Precedence(args.reconnect_delay, sse_config.reconnect_delay, 1)
        /\ opt.max_reconnect_attempts =
              PrecedenceOpt(args.max_reconnect_attempts, sse_config.max_reconnect_attempts)
        /\ opt.read_timeout = Precedence(args.read_timeout, sse_config.read_timeout, 30)
        /\ opt.decode_json = Precedence(args.decode_json, sse_config.decode_json, TRUE)

(***************************************************************************)
(* C10: consume_sse resolves chunk_size, backpressure_buffer_size and      *)
(* drop_policy as call argument > endpoint sse config > built-in default   *)
(* (the policy is compared in lower case); a value the caller passes is    *)
(* the one used.                                                           *)
(***************************************************************************)
C10_ConsumePrecedence ==
    (cpc \in {"running", "config_error"} /\ endpoint_known) =>
        /\ copt.chunk_size = Precedence(args.chunk_size, sse_config.chunk_size, 50)
        /\ copt.backpressure_buffer_size =
              Precedence(args.backpressure_buffer_size,
                         sse_config.backpressure_buffer_size, 500)
        /\ copt.drop_policy =
              Lower(Precedence(args.drop_policy, sse_config.drop_policy, "block"))

(***************************************************************************)
(* Reading what consume_sse did: the events of the processed chunks in the *)
(* order they were handed over, and the steps in which an event arrives or *)
(* the stream ends.                                                        *)
(***************************************************************************)
RECURSIVE Flat(_)
Flat(chunks) == IF chunks = <<>> THEN <<>> ELSE Head(chunks) \o Flat(Tail(chunks))

EventArrives == cpc = "running" /\ arrived' = arrived + 1
StreamExhausted == cpc = "running" /\ cpc' = "returned"
BufferFull == Len(buffer) >= copt.backpressure_buffer_size
FirstEvents(n) == [i \in 1..n |-> i - 1]
ConsumeOptionsAre(chunk_size, buffer_size, policy) ==
    /\ copt.chunk_size = chunk_size
    /\ copt.backpressure_buffer_size = buffer_size
    /\ copt.drop_policy = policy

(***************************************************************************)
(* C11: under drop_oldest, when an event arrives while the buffer holds    *)
(* backpressure_buffer_size events, exactly the oldest buffered event is   *)
(* discarded, dropped_events grows by one and the new event is admitted;   *)
(* nothing is discarded otherwise, and what survives is processed in       *)
(* arrival order.  With buffer 2, chunk 3 and events 0..4 three events are *)
(* dropped and the one chunk is [3, 4].                                    *)
(***************************************************************************)
C11_ArrivalStep ==
    (EventArrives /\ copt.drop_policy = "drop_oldest") =>
        LET kept == IF BufferFull THEN Tail(buffer) ELSE buffer
        IN /\ dropped_events' = dropped_events + (IF BufferFull THEN 1 ELSE 0)
           /\ Flat(chunk_results') \o buffer' =
                 Flat(chunk_results) \o kept \o <<arrived>>

C11_NoOtherDrop ==
    (~EventArrives /\ copt.drop_policy = "drop_oldest") =>
        /\ dropped_events' = dropped_events
        /\ Flat(chunk_results') \o buffer' = Flat(chunk_results) \o buffer

C11_Example ==
    (cpc = "returned" /\ ConsumeOptionsAre(3, 2, "drop_oldest") /\ arrived = 5) =>
        /\ dropped_events = 3
        /\ chunk_results = <<(<<3, 4>>)>>

C11_DropOldest == [][C11_ArrivalStep /\ C11_NoOtherDrop]_vars /\ []C11_Example

\* the run of the example: five events into a buffer of two, chunks of three
C11_Witness ==
    /\ cpc = "returned"
    /\ ConsumeOptionsAre(3, 2, "drop_oldest")
    /\ arrived = 5
    /\ dropped_events = 3

(***************************************************************************)
(* C12: under block no event is ever dropped, whatever chunk_size and      *)
(* backpressure_buffer_size are: dropped_events stays 0, a full buffer is  *)
(* flushed to the processor before the new event is admitted, and the      *)
(* processed chunks, concatenated in order, are the events received.       *)
(* With buffer 2, chunk 2 and events 0..3 the chunks are [0,1], [2,3].     *)
(***************************************************************************)
C12_ArrivalStep ==
    (EventArrives /\ copt.drop_policy = "block") =>
        /\ dropped_events' = 0
        /\ Flat(chunk_results') \o buffer' = Flat(chunk_results) \o buffer \o <<arrived>>
        /\ BufferFull =>
              /\ Len(chunk_results') > Len(chunk_results)
              /\ Flat(SubSeq(chunk_results', Len(chunk_results) + 1,
                              Len(chunk_results'))) = buffer
              /\ buffer' = <<arrived>>

C12_Returned ==
    (cpc = "returned" /\ copt.drop_policy = "block") =>
        /\ dropped_events = 0
        /\ Flat(chunk_results) = FirstEvents(arrived)
        /\ (ConsumeOptionsAre(2, 2, "block") /\ arrived = 4) =>
              chunk_results = <<(<<0, 1>>), (<<2, 3>>)>>

C12_BlockNeverDrops == [][C12_ArrivalStep]_vars /\ []C12_Returned

\* an event arrived at a full buffer, which was flushed, and the call returned
C12_Witness ==
    /\ cpc = "returned"
    /\ ConsumeOptionsAre(3, 2, "block")
    /\ arrived = 5
    /\ chunk_results = <<(<<0, 1>>), (<<2, 3>>), (<<4>>)>>

(***************************************************************************)
(* C13: when consume_sse returns the buffer is empty, processed_events +   *)
(* dropped_events is the number of events received from the stream,        *)
(* processed_events is the number of events in the chunks handed to the    *)
(* processor and chunks_processed is the length of results.                *)
(***************************************************************************)
C13_Accounting ==
    cpc = "returned" =>
        /\ buffer = <<>>
        /\ processed_events + dropped_events = arrived
        /\ processed_events = Len(Flat(chunk_results))
        /\ chunks_processed = Len(chunk_results)

\* events were dropped and the last chunk, smaller than chunk_size, was
\* drained by the final flush
C13_Witness ==
    /\ cpc = "returned"
    /\ dropped_events > 0
    /\ processed_events > 0
    /\ Len(chunk_results[Len(chunk_results)]) < copt.chunk_size

(***************************************************************************)
(* C14: configuration errors are immediate and never retried.  A call of   *)
(* prepare_request, fetch_data, send_data, stream_sse or consume_sse with  *)
(* an unregistered endpoint, and a consume_sse call whose chunk_size or    *)
(* backpressure_buffer_size is not positive or whose drop_policy is        *)
(* neither block nor drop_oldest (the options as resolved), fails in its   *)
(* first step with an error and nothing else: no limiter acquire, no       *)
(* network call, no sleep, no processor invocation, and nothing follows.   *)
(***************************************************************************)
InConfigError == pc = "config_error" \/ cpc = "config_error" \/ rpc = "config_error"

ResolvedConsumeOptionsInvalid ==
    LET o == ResolveConsumeOptions(args, sse_config)
    IN \/ o.chunk_size <= 0
       \/ o.backpressure_buffer_size <= 0
       \/ o.drop_policy \notin {"block", "drop_oldest"}

C14_FirstStep ==
    /\ (pc = "init" /\ cpc = "none" /\ rpc = "none" /\ ~endpoint_known) =>
          pc' = "config_error"
    /\ (cpc = "init" /\ (~endpoint_known \/ ResolvedConsumeOptionsInvalid)) =>
          cpc' = "config_error"
    /\ (rpc \in {"prepare_init", "fetch_init", "send_init"} /\ ~endpoint_known) =>
          rpc' = "config_error"
    /\ ~InConfigError

C14_NothingDone ==
    InConfigError =>
        /\ trace = <<E("value_error")>>
        /\ chunk_results = <<>>
        /\ chunks_processed = 0
        /\ conns = 0
        /\ attempt = 0

C14_ConfigErrorsImmediate == [][C14_FirstStep]_vars /\ []C14_NothingDone

\* consume_sse on a registered endpoint with a chunk_size of 0
C14_Witness ==
    /\ cpc = "config_error"
    /\ endpoint_known
    /\ copt.chunk_size = 0
    /\ copt.drop_policy = "block"

(***************************************************************************)
(* Reading the trace of a fetch_data or send_data call.                    *)
(***************************************************************************)
\* the call ended by raising the structured error of an exhausted retry loop
\* (or of a loop that ran no attempt), not a validation error
RetriesExhausted ==
    /\ rpc = "raised"
    /\ trace # <<>>
    /\ trace[Len(trace)].op = "raise"
    /\ trace[Len(trace)].error.error_category # "VALIDATION"

\* the entries of the attempts made so far: op names in order
Ops(tr) == [i \in 1..Len(tr) |-> tr[i].op]

(***************************************************************************)
(* C15: retry_count is the number of retries.  When every network call of  *)
(* fetch_data or of a single-mapping send_data fails, the call has made    *)
(* the initial attempt plus retry_count retries, that is retry_count + 1   *)
(* network calls, when it raises.                                          *)
(***************************************************************************)
C15_RetryCount ==
    (RetriesExhausted /\ attempt >= 1) =>
        Count(trace, "call") = connector.retry_count + 1

(***************************************************************************)
(* C16: backoff order of fetch_data and of single-mapping send_data.       *)
(* After the k-th failed attempt that is not the last the call sleeps      *)
(* retry_delay * k before the next attempt; after the final failed attempt *)
(* it does not sleep and raises the structured error with the category and *)
(* status code of that last failure; a successful attempt returns at once, *)
(* with no further attempt and no sleep.                                   *)
(***************************************************************************)
NewOps == {trace'[i].op : i \in NewIndices}

C16_AttemptStep ==
    rpc \in {"fetch_attempt", "send_attempt"} =>
        LET n == Len(trace')
            k == Count(trace', "exc")
        IN /\ TraceGrows
           /\ Count(SubSeq(trace', Len(trace) + 1, n), "call") = 1
           /\ "exc" \in NewOps <=> rpc' \in {"fetch_sleep", "send_sleep", "raised"}
           /\ rpc' \in {"fetch_sleep", "send_sleep"} =>
                 /\ trace'[n] = ESleep(MsPerSecond * connector.retry_delay * k)
                 /\ trace'[n - 1].op = "exc"
                 /\ Count(SubSeq(trace', Len(trace) + 1, n), "sleep") = 1
           /\ rpc' = "raised" =>
                 /\ "sleep" \notin NewOps
                 /\ trace'[n].op = "raise"
                 /\ trace'[n - 1].op = "exc"
                 /\ trace'[n].error.error_category =
                        categorize_error(trace'[n - 1].exc).category
                 /\ trace'[n].error.status_code =
                        categorize_error(trace'[n - 1].exc).status_code
           /\ "exc" \notin NewOps =>
                 /\ "sleep" \notin NewOps
                 /\ attempt' = attempt
                 /\ rpc' = "returned" \/ (connector.pagination.set /\ rpc' = "paginate")

C16_OtherStep ==
    /\ rpc \in {"fetch_sleep", "send_sleep"} =>
          /\ trace' = trace
          /\ attempt' = attempt + 1
          /\ rpc' = (IF rpc = "fetch_sleep" THEN "fetch_attempt" ELSE "send_attempt")
    /\ rpc = "paginate" =>
          /\ TraceGrows
          /\ "sleep" \notin NewOps
          /\ attempt' = attempt
          /\ rpc' \in {"paginate", "returned"}
    /\ rpc \notin {"returned", "raised"}

C16_BackoffOrder == [][C16_AttemptStep /\ C16_OtherStep]_vars

\* three attempts failed: two sleeps, the second twice the first, then the error
C16_Witness ==
    /\ RetriesExhausted
    /\ connector.retry_count = 3
    /\ connector.retry_delay = 2
    /\ Count(trace, "exc") = 3
    /\ Count(trace, "sleep") = 2

(***************************************************************************)
(* C17: the rate limiter gates every outbound call.  Every HTTP call the   *)
(* connector issues (a fetch_data attempt, a follow-up page request of the *)
(* pagination walker, a send_data item or attempt, an SSE connection or    *)
(* reconnection) is preceded by exactly one acquire made after the         *)
(* previous HTTP call of the operation.                                    *)
(***************************************************************************)
\* the acquires recorded between the previous call (or the start) and entry n
RECURSIVE AcquiresBefore(_, _)
AcquiresBefore(tr, n) ==
    IF n <= 1 \/ tr[n - 1].op = "call"
    THEN 0
    ELSE (IF tr[n - 1].op = "acquire" THEN 1 ELSE 0) + AcquiresBefore(tr, n - 1)

C17_CallStep ==
    \A i \in NewIndices : trace'[i].op = "call" => AcquiresBefore(trace', i) = 1

C17_LimiterGatesEveryCall == [][TraceGrows /\ C17_CallStep]_vars

(***************************************************************************)
(* C18: update_from_response is called unconditionally.  For every HTTP    *)
(* response fetch_data or send_data receives, a non-2xx one included, the  *)
(* rate limiter is updated from the response exactly once, before the      *)
(* status check can raise: the entry after a response is the update, and   *)
(* no second update follows it.                                            *)
(***************************************************************************)
C18_ResponseStep ==
    \A i \in NewIndices :
        trace'[i].op = "response" =>
            /\ i < Len(trace')
            /\ trace'[i + 1].op = "update"
            /\ (i + 2 <= Len(trace') => trace'[i + 2].op # "update")

C18_UpdateFromEveryResponse == [][TraceGrows /\ C18_ResponseStep]_vars

(***************************************************************************)
(* C19: batch send_data never raises because of an individual item.  When  *)
(* data is a list whose items all pass the endpoint's request_schema (or   *)
(* the endpoint has none), whatever happens to each item's request the     *)
(* call does not raise and returns a summary in which sent_count +         *)
(* failed_count is the number of items, results has one entry per sent     *)
(* item and failures one per failed item, each in item order, and success  *)
(* is true only if no item failed; every item is sent, also after a        *)
(* failing one.                                                            *)
(***************************************************************************)
\* the indices recorded in a list of results or failures grow strictly
InItemOrder(entries) ==
    \A i, j \in 1..Len(entries) : i < j => entries[i].item_index < entries[j].item_index

ItemsPassSchema ==
    connector.request_schema => \A i \in 1..Len(data.items) : data.items[i].valid

SummaryAccounts ==
    LET s == BatchSummary
    IN /\ s.sent_count + s.failed_count = Len(data.items)
       /\ Len(s.results) = s.sent_count
       /\ Len(s.failures) = s.failed_count
       /\ InItemOrder(s.results)
       /\ InItemOrder(s.failures)
       /\ {s.results[i].item_index : i \in 1..Len(s.results)}
             \cup {s.failures[i].item_index : i \in 1..Len(s.failures)}
             = 0..(Len(data.items) - 1)
       /\ s.success => s.failed_count = 0
       /\ Count(trace, "call") = Len(data.items)

C19_BatchSummary ==
    (data.kind = "list" /\ ItemsPassSchema) =>
        /\ rpc # "raised"
        /\ rpc = "returned" => SummaryAccounts

\* the statement with no condition on the items
C19_BatchSummary_AsClaimed ==
    data.kind = "list" =>
        /\ rpc # "raised"
        /\ rpc = "returned" => SummaryAccounts

\* three items, the first failed and the two after it were sent
C19_Witness ==
    /\ data.kind = "list"
    /\ Len(data.items) = 3
    /\ rpc = "returned"
    /\ failed = 1
    /\ failures[1].item_index = 0
    /\ successful = 2

(***************************************************************************)
(* C20: a send_data payload that fails the endpoint's request_schema       *)
(* raises a VALIDATION error immediately.  The first step of the call      *)
(* raises it, with no limiter acquire, no network call and no sleep        *)
(* before it, no retry attempt is started for it, and nothing follows.     *)
(***************************************************************************)
PayloadFailsSchema ==
    /\ connector.request_schema
    /\ connector.validator_available
    /\ \E i \in 1..Len(data.items) : ~data.items[i].valid

ValidationRaised ==
    /\ rpc = "raised"
    /\ trace # <<>>
    /\ trace[Len(trace)].op = "raise"
    /\ trace[Len(trace)].error.error_category = "VALIDATION"

C20_FirstStep ==
    (rpc = "send_init" /\ endpoint_known /\ PayloadFailsSchema) =>
        /\ rpc' = "raised"
        /\ trace' = <<ERaise(ValidationError)>>
        /\ attempt' = 0
        /\ item_index' = 0

C20_NothingDone ==
    ValidationRaised =>
        /\ Len(trace) = 1
        /\ attempt = 0
        /\ successful = 0 /\ failed = 0

C20_ValidationImmediate ==
    [][C20_FirstStep /\ ~ValidationRaised]_vars /\ []C20_NothingDone

\* a list whose second item fails the schema
C20_Witness ==
    /\ ValidationRaised
    /\ data.kind = "list"
    /\ Len(data.items) = 2
    /\ data.items[1].valid
    /\ ~data.items[2].valid

(***************************************************************************)
(* C25: the error categorizer labels each failure by the first matching    *)
(* rule: timeout -> (TIMEOUT, 0); transport -> (NETWORK, 0); HTTP status   *)
(* 401/403 -> AUTHENTICATION, 400/422 -> VALIDATION, 429 -> RATE_LIMIT,    *)
(* >= 500 -> SERVER, other >= 400 -> CLIENT, each with the status as code; *)
(* anything else -> UNKNOWN with a null code, so that UNKNOWN never comes  *)
(* with a code.  Every structured error raised after a failure carries the *)
(* category and code these rules give for that failure.                    *)
(***************************************************************************)
ClaimedCategory(exc) ==
    IF exc.kind = "timeout" THEN [category |-> "TIMEOUT", status_code |-> SomeInt(0)]
    ELSE IF exc.kind = "transport" THEN [category |-> "NETWORK", status_code |-> SomeInt(0)]
    ELSE IF exc.kind = "http" /\ exc.status \in {401, 403}
    THEN [category |-> "AUTHENTICATION", status_code |-> SomeInt(exc.status)]
    ELSE IF exc.kind = "http" /\ exc.status \in {400, 422}
    THEN [category |-> "VALIDATION", status_code |-> SomeInt(exc.status)]
    ELSE IF exc.kind = "http" /\ exc.status = 429
    THEN [category |-> "RATE_LIMIT", status_code |-> SomeInt(exc.status)]
    ELSE IF exc.kind = "http" /\ exc.status >= 500
    THEN [category |-> "SERVER", status_code |-> SomeInt(exc.status)]
    ELSE IF exc.kind = "http" /\ exc.status >= 400
    THEN [category |-> "CLIENT", status_code |-> SomeInt(exc.status)]
    ELSE [category |-> "UNKNOWN", status_code |-> NoneInt]

C25_Categorizer ==
    \A i \in 2..Len(trace) :
        (trace[i].op = "raise" /\ trace[i - 1].op = "exc") =>
            /\ trace[i].error.error_category = ClaimedCategory(trace[i - 1].exc).category
            /\ trace[i].error.status_code = ClaimedCategory(trace[i - 1].exc).status_code
            /\ (trace[i].error.error_category = "UNKNOWN" =>
                   ~trace[i].error.status_code.set)

(***************************************************************************)
(* C30: the fall-through ends of fetch_data and send_data are unreachable  *)
(* for every retry_count.  fetch_data never raises the "Unexpected state"  *)
(* error, send_data with a mapping never returns the "Unknown error"       *)
(* result, and a call that has ended has made at least one network call.   *)
(***************************************************************************)
FellThrough ==
    \/ /\ trace # <<>>
       /\ trace[Len(trace)].op = "raise"
       /\ trace[Len(trace)].error.error_category = "UNKNOWN"
       /\ trace[Len(trace)].error.status_code = SomeInt(0)
    \/ results = <<[success |-> FALSE]>>

C30_FirstStep ==
    /\ (rpc = "fetch_init" /\ endpoint_known) => rpc' = "fetch_attempt"
    /\ (rpc = "send_init" /\ endpoint_known /\ data.kind = "single"
          /\ ~(connector.request_schema /\ ~data.items[1].valid)) =>
            rpc' = "send_attempt"

C30_NoFallThrough == [][C30_FirstStep]_vars /\ []~FellThrough

(***************************************************************************)
(* C28: connection release in stream_sse.  Every connection an invocation  *)
(* opens is released on every exit path (end of stream, exception, return  *)
(* on reaching max_events, close of the generator by the caller), it is    *)
(* released before the reconnect sleep starts, and at most one connection  *)
(* of an invocation is open at any time.                                   *)
(***************************************************************************)
\* connections held once entry i of the new trace is made
RECURSIVE HeldAt(_)
HeldAt(i) ==
    IF i <= Len(trace) THEN conn_open
    ELSE HeldAt(i - 1) + (IF trace'[i].op = "open" THEN 1 ELSE 0)
                       - (IF trace'[i].op = "release" THEN 1 ELSE 0)

C28_ReleaseStep ==
    /\ \A i \in NewIndices :
          /\ trace'[i].op = "open" => HeldAt(i - 1) = 0
          /\ trace'[i].op = "release" => HeldAt(i - 1) = 1
          /\ trace'[i].op \in {"sleep", "raise", "call"} => HeldAt(i) = 0
    /\ conn_open' = HeldAt(Len(trace'))
    /\ conn_open' \in {0, 1}
    /\ pc' \in {"done", "closed", "raised", "sleep_exc", "sleep_close", "connect"} =>
          conn_open' = 0
    /\ pc' \in {"stream", "yielded_loop", "yielded_flush"} => conn_open' = 1

C28_ConnectionRelease == [][TraceGrows /\ C28_ReleaseStep]_vars

\* the caller closed the generator while an event was handed over
C28_Witness ==
    /\ pc = "closed"
    /\ conn_open = 0
    /\ trace[Len(trace)].op = "release"
    /\ trace[Len(trace) - 1].op = "yield"

(***************************************************************************)
(* C29: for every block with at least one data: line, parse_sse_event      *)
(* returns an event whose raw_data is the data values joined by newline in *)
(* line order; with decode_json true (the default) its data is the         *)
(* JSON-decoded payload when the joined string parses as JSON and the raw  *)
(* joined string otherwise, with decode_json false it is the raw joined    *)
(* string; the block is never dropped and decoding never fails.            *)
(***************************************************************************)
\* the values of the data: lines of a block, in line order
RECURSIVE DataValues(_)
DataValues(block) ==
    IF block = <<>> THEN <<>>
    ELSE LET line == Head(block)
             k == IndexOf(line, ":")
             isData == IF k = 0 THEN line = F_data ELSE SubSeq(line, 1, k - 1) = F_data
             rest == IF k = 0 THEN <<>> ELSE SubSeq(line, k + 1, Len(line))
             value == IF rest # <<>> /\ rest[1] = " " THEN Tail(rest) ELSE rest
         IN (IF isData THEN <<value>> ELSE <<>>) \o DataValues(Tail(block))

DecodedOrRaw(joined) ==
    IF JsonLoads(joined).ok
    THEN [kind |-> "json", str |-> <<>>, num |-> JsonLoads(joined).val]
    ELSE [kind |-> "str", str |-> joined, num |-> 0]

\* the step parses the pending block: a blank line arrives or the stream ends
BlockParsed ==
    /\ pc = "stream"
    /\ DataValues(pending_lines) # <<>>
    /\ Len(trace') > Len(trace)
    /\ \/ trace'[Len(trace) + 1].op = "eos"
       \/ /\ trace'[Len(trace) + 1].op = "line"
          /\ RstripCR(trace'[Len(trace) + 1].line) = <<>>

C29_Step(decoding) ==
    BlockParsed =>
        LET joined == JoinNL(DataValues(pending_lines))
        IN /\ Len(trace') >= Len(trace) + 2
           /\ trace'[Len(trace) + 2].op = "yield"
           /\ trace'[Len(trace) + 2].event.raw_data = joined
           /\ trace'[Len(trace) + 2].event.data =
                 (IF decoding THEN DecodedOrRaw(joined)
                  ELSE [kind |-> "str", str |-> joined, num |-> 0])

C29_ParsedData == [][TraceGrows /\ C29_Step(opt.decode_json)]_vars

\* the statement with no condition on decode_json
C29_ParsedData_AsClaimed == [][TraceGrows /\ C29_Step(TRUE)]_vars

\* the block "data: 12" was handed over decoded as the number 12
C29_Witness ==
    /\ opt.decode_json
    /\ trace # <<>>
    /\ trace[Len(trace)].op = "yield"
    /\ trace[Len(trace)].event.raw_data = <<"1", "2">>
    /\ trace[Len(trace)].event.data = [kind |-> "json", str |-> <<>>, num |-> 12]

\* the JSON body of the response fetch_data returned from
ReturnedBody == trace[Len(trace) - 2].body

\* fetch_data has returned what _process_response made of a dict body, with a
\* response_path configured
ProcessedWithPath ==
    /\ rpc = "returned"
    /\ connector.response_path # <<>>
    /\ Len(trace) >= 3
    /\ trace[Len(trace) - 2].op = "response"
    /\ IsDict(ReturnedBody)

(***************************************************************************)
(* C24: process_response with a dotted response_path returns the value at  *)
(* the path (a scalar in its {"value": ...} wrapping) when every segment   *)
(* is present, and the original payload unchanged, not a partially         *)
(* navigated sub-object, when any segment, first or later, is missing.     *)
(***************************************************************************)
C24_ResponsePath ==
    ProcessedWithPath =>
        LET w == WalkPath(ReturnedBody, SplitDots(connector.response_path))
        IN IF w.found THEN result \in {w.at, ValueDict(w.at)}
           ELSE result = ReturnedBody

\* the pages received so far: the JSON bodies of the trace, in order
RECURSIVE BodiesOf(_)
BodiesOf(tr) ==
    IF tr = <<>> THEN <<>>
    ELSE IF "body" \in DOMAIN Head(tr) THEN <<Head(tr).body>> \o BodiesOf(Tail(tr))
    ELSE BodiesOf(Tail(tr))

\* the items of a page as the result lists them: the elements at "i", a
\* scalar element as {"value": element}
ItemsAt(body) ==
    LET l == body.map["i"].items
    IN [k \in 1..Len(l) |-> IF l[k].kind = "dict" THEN l[k] ELSE JDict("value" :> l[k])]

RECURSIVE ConcatItems(_)
ConcatItems(bodies) ==
    IF bodies = <<>> THEN <<>>
    ELSE IF "i" \in DOMAIN Head(bodies).map
    THEN ItemsAt(Head(bodies)) \o ConcatItems(Tail(bodies))
    ELSE ConcatItems(Tail(bodies))

\* the step under consideration received a page that has items at "i"
GotPage ==
    /\ rpc \in {"fetch_attempt", "paginate"}
    /\ \E i \in NewIndices : "body" \in DOMAIN trace'[i]
    /\ "i" \in DOMAIN Last(BodiesOf(trace')).map

\* the token of the page just received is a string or an integer
TokenIsStrOrInt ==
    LET m == Last(BodiesOf(trace')).map
    IN "n" \in DOMAIN m /\ m["n"].kind \in {"str", "int"}

(***************************************************************************)
(* C21: next-link pagination.  With data_path and next_page_path           *)
(* configured, every follow-up request carries page_param set to the token *)
(* of the page before it; a page whose token is a string or an integer is  *)
(* followed by a request for the next page, and at the first page whose    *)
(* token is absent or is not a string or integer the walk ends and returns *)
(* the items of all pages fetched, concatenated in page order.             *)
(***************************************************************************)
C21_Step ==
    /\ \A i \in NewIndices :
         (trace'[i].op = "call" /\ "page_param" \in DOMAIN trace'[i]) =>
             /\ BodiesOf(trace) # <<>>
             /\ "n" \in DOMAIN Last(BodiesOf(trace)).map
             /\ trace'[i].page_param = Last(BodiesOf(trace)).map["n"]
    /\ (connector.pagination.next_page_path # <<>> /\ GotPage) =>
         IF TokenIsStrOrInt
         THEN rpc' = "paginate" /\ next_page' = Last(BodiesOf(trace')).map["n"]
         ELSE rpc' = "returned" /\ result' = JList(ConcatItems(BodiesOf(trace')))

C21_NextLinkPagination == [][TraceGrows /\ C21_Step]_vars

(***************************************************************************)
(* C22: counter pagination.  When the pagination has no next_page_path,    *)
(* every page received while the page counter has not passed max_pages is  *)
(* followed by a request for the next page number: page 2 after the first  *)
(* page, then 3, and so on, sent as page_param.                            *)
(***************************************************************************)
C22_Step ==
    (connector.pagination.next_page_path = <<>> /\ GotPage
        /\ Len(BodiesOf(trace')) < connector.pagination.max_pages) =>
        /\ rpc' = "paginate"
        /\ next_page' = JInt(Len(BodiesOf(trace')) + 1)

C22_CounterPagination == [][TraceGrows /\ C22_Step]_vars

\* the step under consideration is a follow-up page request that failed
PageFailure ==
    /\ rpc = "paginate"
    /\ \E i \in NewIndices : trace'[i].op = "exc"

(***************************************************************************)
(* C23: a failure while fetching or decoding a follow-up page never leaves *)
(* the pagination walker.  The walk stops at that page and fetch_data      *)
(* returns, as a success, exactly the items of the pages fetched before    *)
(* it, in page order: nothing is raised, and no retry attempt, backoff     *)
(* sleep or limiter acquire is made for the failed page.                   *)
(***************************************************************************)
C23_Step ==
    PageFailure =>
        /\ rpc' = "returned"
        /\ Last(trace').op = "return"
        /\ result' = JList(ConcatItems(BodiesOf(trace)))
        /\ attempt' = attempt
        /\ \A i \in NewIndices : trace'[i].op \notin {"raise", "sleep", "acquire"}

C23_PageFailureContained == [][TraceGrows /\ C23_Step]_vars

C23_Witness ==
    /\ rpc = "returned"
    /\ Len(trace) >= 2
    /\ trace[Len(trace) - 1].op = "exc"
    /\ Len(BodiesOf(trace)) = 2
    /\ result = JList(<<ItemA, ItemB, JDict("value" :> JInt(3))>>)

\* the header the auth configuration sets, if it sets one
AuthSets(auth, h) ==
    \/ auth.type = "bearer" /\ h = "Authorization"
    \/ auth.type = "api_key" /\ auth.in_header /\ h = auth.header_name
AuthValue(auth) ==
    IF auth.type = "bearer" THEN <<"Bearer ">> \o auth.token ELSE auth.key

HeaderNames == {"A", "B", "Authorization", "X-API-Key", "Accept", "Cache-Control"}
ParamNames == {"q", "r", "s"}

\* the descriptor has at name h the first of: the auth-derived value, the
\* endpoint header, the connector default header; and nothing otherwise
HeaderAsClaimed(req, c, h) ==
    IF AuthSets(c.auth_config, h)
    THEN h \in DOMAIN req.headers /\ req.headers[h] = AuthValue(c.auth_config)
    ELSE IF h \in DOMAIN c.endpoint_headers
    THEN h \in DOMAIN req.headers /\ req.headers[h] = c.endpoint_headers[h]
    ELSE IF h \in DOMAIN c.default_headers
    THEN h \in DOMAIN req.headers /\ req.headers[h] = c.default_headers[h]
    ELSE h \notin DOMAIN req.headers

\* the descriptor has at key k the call-supplied value, else the endpoint's
ParamAsClaimed(req, c, ps, k) ==
    IF ps.set /\ k \in DOMAIN ps.val
    THEN k \in DOMAIN req.params /\ req.params[k] = ps.val[k]
    ELSE IF k \in DOMAIN c.endpoint_params
    THEN k \in DOMAIN req.params /\ req.params[k] = c.endpoint_params[k]
    ELSE k \notin DOMAIN req.params

(***************************************************************************)
(* C26: prepare_request merge precedence.  For every header name the       *)
(* descriptor's value is the auth-derived one (bearer -> Authorization,    *)
(* api-key-in-header -> the named header) if auth sets it, else the        *)
(* endpoint header, else the connector default header; for every query     *)
(* parameter the call-supplied value wins over the endpoint-defined one,   *)
(* and endpoint parameters not supplied by the call are kept.              *)
(***************************************************************************)
C26_Step ==
    \A i \in NewIndices :
        trace'[i].op = "prepare_request" =>
            LET req == trace'[i + 1].request
            IN /\ \A h \in HeaderNames : HeaderAsClaimed(req, connector, h)
               /\ \A k \in ParamNames :
                    ParamAsClaimed(req, connector, trace'[i].params, k)

C26_MergePrecedence == [][TraceGrows /\ C26_Step]_vars

\* a call with params that override one endpoint parameter and add another,
\* under bearer auth and colliding default and endpoint headers
C26_Witness ==
    /\ Len(trace) >= 2
    /\ trace[1].op = "prepare_request"
    /\ trace[1].params = SomeParams("q" :> 3 @@ "r" :> 1)
    /\ trace[2].request.params = ("q" :> 3 @@ "r" :> 1 @@ "s" :> 1)
    /\ trace[2].request.headers =
         ("A" :> <<"d">> @@ "B" :> <<"e">> @@ "Authorization" :> <<"Bearer ", "t">>
          @@ "X-API-Key" :> <<"e">> @@ "Accept" :> <<"e">>)

\* the calls made so far: the positions of their entries in the trace
CallsMade ==
    {i \in 1..Len(trace) : trace[i].op \in {"prepare_request", "build_sse_request"}}

(***************************************************************************)
(* C27: prepare_request is idempotent and leaves the configuration         *)
(* untouched.  No prepare_request or SSE request-building call, with or    *)
(* without params and last_event_id, changes the endpoint's params or      *)
(* headers or the connector's default headers, and two calls with          *)
(* identical inputs return equal descriptors whatever calls were made in   *)
(* between.                                                                *)
(***************************************************************************)
C27_ConfigStep ==
    /\ connector'.endpoint_params = connector.endpoint_params
    /\ connector'.endpoint_headers = connector.endpoint_headers
    /\ connector'.default_headers = connector.default_headers

C27_SameInputsSameDescriptor ==
    \A i, j \in CallsMade :
        trace[i] = trace[j] => trace[i + 1].request = trace[j + 1].request

C27_Idempotent == [][C27_ConfigStep]_vars /\ []C27_SameInputsSameDescriptor

\* the same call made twice with a call of other params in between
C27_Witness ==
    /\ Len(trace) = 9
    /\ trace[1] = trace[7]
    /\ trace[1].params = NoParams
    /\ trace[4].params = SomeParams("q" :> 3 @@ "r" :> 1)
    /\ trace[2] = trace[8]

\* a field value that reads as a non-negative integer
NonNegInteger(value) ==
    LET t == StripSpaces(value)
    IN AllDigits(t) \/ (Len(t) > 1 /\ t[1] = "+" /\ AllDigits(Tail1(t)))

\* the lines of a block that carry an id without a NUL character, a retry
\* that is a non-negative integer
ValidIdLines(block) ==
    {k \in 1..Len(block) : /\ SplitField(block[k]).field = F_id
                           /\ \A n \in 1..Len(block[k]) : block[k][n] # "NUL"}
ValidRetryLines(block) ==
    {k \in 1..Len(block) : /\ SplitField(block[k]).field = F_retry
                           /\ NonNegInteger(SplitField(block[k]).value)}
LastOf(ks) == CHOOSE k \in ks : \A m \in ks : m <= k

\* the id a block leaves: that of its last valid id line, if it has one
IdOf(block) ==
    IF ValidIdLines(block) = {} THEN NoneStr
    ELSE SomeStr(SplitField(block[LastOf(ValidIdLines(block))]).value)

(***************************************************************************)
(* C31: parse_sse_event returns nothing exactly when the block has no data *)
(* field, no valid retry (a non-negative integer) and no valid id.  An id  *)
(* value containing a NUL character is rejected and leaves the previously  *)
(* known id in place, within the block and as the stream's last_event_id;  *)
(* a malformed or negative retry value is ignored: nothing is raised and   *)
(* the reconnect delay stays as it was.                                    *)
(***************************************************************************)
C31_Step ==
    \A j \in NewIndices :
        IsTerminator(trace'[j]) =>
            LET block == BlockEndedAt(trace', j)
                parsed == parse_sse_event(block, opt.decode_json)
            IN /\ parsed.some <=> \/ BlockHasData(block)
                                  \/ ValidRetryLines(block) # {}
                                  \/ ValidIdLines(block) # {}
               /\ parsed.some => parsed.ev.id = IdOf(block)
               /\ parsed.some => (parsed.ev.retry.set <=> ValidRetryLines(block) # {})
               /\ last_event_id' =
                    IF IdOf(block).set /\ IdOf(block).val # <<>> THEN IdOf(block)
                    ELSE last_event_id
               /\ ValidRetryLines(block) = {} =>
                    effective_reconnect_delay' = effective_reconnect_delay
               /\ \A i \in NewIndices : trace'[i].op \notin {"exc", "raise"}

C31_NoiseBlocks == [][TraceGrows /\ C31_Step]_vars

\* a block whose second id has a NUL character left the first id in place
C31_Witness ==
    /\ Len(trace) >= 3
    /\ \E j \in 3..Len(trace) :
         /\ IsTerminator(trace[j])
         /\ trace[j - 1] = ELine(L_idNul)
         /\ trace[j - 2] = ELine(L_id1)
    /\ last_event_id = SomeStr(<<"1">>)

\* the step under consideration is the clean end of a connection's lines
StreamEnds == pc = "stream" /\ Len(trace') > Len(trace) /\ trace'[Len(trace) + 1].op = "eos"

(***************************************************************************)
(* C32: when an SSE connection ends cleanly while lines of a block not yet *)
(* terminated by a blank line are pending, that block is handled like a    *)
(* terminated one: it is emitted, directly after the end of the stream and *)
(* before any reconnect sleep, if and only if it has data; it updates      *)
(* last_event_id and the reconnect delay; and it counts toward max_events, *)
(* so that the invocation ends without a sleep or a reconnect when it was  *)
(* the last event allowed.                                                 *)
(***************************************************************************)
C32_FlushStep ==
    StreamEnds =>
        LET block == BlockEndedAt(trace', Len(trace) + 1)
            fields == BlockFields(block)
        IN /\ block = pending_lines
           /\ IF BlockHasData(block)
              THEN /\ NewEntries = <<E("eos"), EYield(EventOf(block))>>
                   /\ pc' = "yielded_flush"
                   /\ received_events' = received_events + 1
              ELSE /\ ~Has(NewEntries, "yield")
                   /\ received_events' = received_events
           /\ last_event_id' =
                IF fields.event_id.set /\ fields.event_id.val # <<>> THEN fields.event_id
                ELSE last_event_id
           /\ effective_reconnect_delay' =
                IF fields.retry_ms.set THEN fields.retry_ms.val
                ELSE effective_reconnect_delay
           /\ Has(NewEntries, "sleep") =>
                Last(NewEntries) = ESleep(effective_reconnect_delay')

C32_CountStep ==
    (pc = "yielded_flush" /\ opt.max_events.set
        /\ received_events >= opt.max_events.val) =>
        /\ pc' \in {"done", "closed"}
        /\ reconnect_attempts' = reconnect_attempts
        /\ \A i \in NewIndices : trace'[i].op \notin {"sleep", "request", "call"}

C32_TrailingBlockFlushed == [][TraceGrows /\ C32_FlushStep /\ C32_CountStep]_vars

\* a trailing block with an id and data was the one event allowed
C32_Witness ==
    /\ pc = "done"
    /\ opt.max_events = SomeInt(1)
    /\ Len(trace) >= 5
    /\ trace[Len(trace) - 4] = ELine(L_id1)
    /\ trace[Len(trace) - 3] = ELine(L_data)
    /\ trace[Len(trace) - 2].op = "eos"
    /\ trace[Len(trace) - 1].op = "yield"
    /\ Last(trace).op = "release"
    /\ last_event_id = SomeStr(<<"1">>)

\* the step under consideration takes the reconnect attempt count beyond
\* max_reconnect_attempts
LimitExceeded ==
    /\ Started
    /\ opt.reconnect
    /\ opt.max_reconnect_attempts.set
    /\ reconnect_attempts <= opt.max_reconnect_attempts.val
    /\ reconnect_attempts' > opt.max_reconnect_attempts.val

(***************************************************************************)
(* C34: how exhaustion ends depends on the last connection.  When the      *)
(* reconnect attempt count exceeds max_reconnect_attempts after a clean    *)
(* closure of the stream, stream_sse ends the generator silently: nothing  *)
(* is raised and there is no sleep; when it exceeds it after an exception, *)
(* a structured error for that exception is raised.                        *)
(***************************************************************************)
C34_Step ==
    /\ LimitExceeded =>
         IF Has(NewEntries, "exc")
         THEN /\ pc' = "raised"
              /\ Last(NewEntries) =
                   ERaise(raise_sse_error(TheExc(NewEntries), EndpointName, request'))
              /\ ~Has(NewEntries, "sleep")
         ELSE /\ pc' = "done"
              /\ Last(NewEntries).op = "release"
              /\ ~Has(NewEntries, "raise")
              /\ ~Has(NewEntries, "sleep")
    /\ (Started /\ pc' = "raised" /\ pc # "raised") => Has(NewEntries, "exc")

C34_ExhaustionEnds == [][TraceGrows /\ C34_Step]_vars

\* a limit of one was used up by a failure and exceeded by a clean closure
C34_Witness ==
    /\ pc = "done"
    /\ opt.max_reconnect_attempts = SomeInt(1)
    /\ reconnect_attempts = 2
    /\ Has(trace, "exc")
    /\ Count(trace, "sleep") = 1
    /\ Last(trace).op = "release"
    /\ trace[Len(trace) - 1].op = "eos"

(***************************************************************************)
(* C35: when an exception interrupts an SSE connection, the lines pending  *)
(* for the block that was not yet terminated are discarded.  The failing   *)
(* step emits nothing and leaves last_event_id, the reconnect delay and    *)
(* the event count as they were; the next connection starts with an empty  *)
(* pending-line list, so that the pending lines are always those read on   *)
(* the current connection since its last block ended; and what was yielded *)
(* before stays in place.                                                  *)
(***************************************************************************)
C35_Step ==
    /\ (Started /\ Has(NewEntries, "exc")) =>
         /\ ~Has(NewEntries, "yield")
         /\ last_event_id' = last_event_id
         /\ effective_reconnect_delay' = effective_reconnect_delay
         /\ received_events' = received_events
    /\ (Has(NewEntries, "open") /\ pc' = "stream") => pending_lines' = <<>>
    /\ (pc = "stream" /\ Has(NewEntries, "line")) =>
         pending_lines' = PendingAfter(trace', Len(trace) + 1)

C35_PendingDiscarded == [][TraceGrows /\ C35_Step]_vars

\* a data line was pending when the connection failed; the next connection
\* delivered a whole block, and only that one was emitted
C35_Witness ==
    /\ pc = "yielded_loop"
    /\ Count(trace, "yield") = 1
    /\ Count(trace, "line") = 3
    /\ \E i \in 1..(Len(trace) - 1) : trace[i] = ELine(L_data) /\ trace[i + 1].op = "exc"
    /\ trace[Len(trace) - 2] = ELine(L_data)
    /\ trace[Len(trace) - 1] = ELine(L_blank)
    /\ Last(trace).event.raw_data = <<"x">>

\* the invocation has ended: returned, raised, or closed by the caller
Terminated == pc \in {"done", "raised", "closed"}

C33_CounterStep == Started => reconnect_attempts' >= reconnect_attempts

\* at most N + 1 connections are opened, N being max_reconnect_attempts
C33_ConnectionsAsClaimed ==
    (Started /\ opt.max_reconnect_attempts.set) =>
        conns <= opt.max_reconnect_attempts.val + 1

\* at most N + 1 connections for N >= 0, and one for a negative N
C33_Connections ==
    (Started /\ opt.max_reconnect_attempts.set) =>
        conns <= Max(opt.max_reconnect_attempts.val, 0) + 1

(***************************************************************************)
(* C33: the reconnect attempt counter of a stream_sse invocation only      *)
(* grows: no successful connection and no received event resets it.  With  *)
(* max_reconnect_attempts = N >= 0 an invocation opens at most N + 1       *)
(* connections in total, failures and clean closures counted together      *)
(* (with a negative N it opens one), and if every connection delivers      *)
(* finitely many lines the invocation terminates.                          *)
(***************************************************************************)
C33_AttemptsBounded ==
    [][C33_CounterStep]_vars /\ []C33_Connections /\ <>Terminated

\* C33 as stated: at most N + 1 connections for every N
C33_AttemptsBounded_AsClaimed ==
    [][C33_CounterStep]_vars /\ []C33_ConnectionsAsClaimed /\ <>Terminated

\* a limit of one: a clean closure after an event and a failure used it up
C33_Witness ==
    /\ pc = "raised"
    /\ opt.max_reconnect_attempts = SomeInt(1)
    /\ reconnect_attempts = 2
    /\ conns = 2
    /\ Has(trace, "yield")
    /\ Has(trace, "eos")

\* consume_sse runs or has ended with its options accepted
Consuming == cpc \in {"running", "returned", "raised"}

\* the events received that are neither buffered nor handed to the processor
LostEvents ==
    {e \in 0..(arrived - 1) :
        /\ \A i \in 1..Len(buffer) : buffer[i] # e
        /\ \A i \in 1..Len(Flat(chunk_results)) : Flat(chunk_results)[i] # e}

C36_BufferBounded == Consuming => Len(buffer) <= copt.backpressure_buffer_size

C36_LossCounted == Consuming => Cardinality(LostEvents) = dropped_events

\* the arriving event ends up last in the buffer or last in the last chunk,
\* and the events that leave the buffer are processed or counted as dropped
C36_ArrivalStep ==
    EventArrives =>
        /\ \/ buffer' # <<>> /\ buffer'[Len(buffer')] = arrived
           \/ /\ buffer' = <<>>
              /\ chunk_results' # <<>>
              /\ Flat(chunk_results')[Len(Flat(chunk_results'))] = arrived
        /\ Len(buffer') + (processed_events' - processed_events)
             + (dropped_events' - dropped_events) = Len(buffer) + 1

(***************************************************************************)
(* C36: the buffer of consume_sse never holds more than                    *)
(* backpressure_buffer_size events, under either drop policy.  An event is *)
(* appended only when the buffer holds fewer, so the bounded deque never   *)
(* evicts an element by itself: every event that arrived is buffered, was  *)
(* handed to the processor, or is counted in dropped_events.               *)
(***************************************************************************)
C36_BoundedBuffer ==
    [][C36_ArrivalStep]_vars /\ []C36_BufferBounded /\ []C36_LossCounted

\* a full buffer of two was relieved by a counted drop, and is full again
C36_Witness ==
    /\ cpc = "running"
    /\ ConsumeOptionsAre(3, 2, "drop_oldest")
    /\ buffer = <<1, 2>>
    /\ dropped_events = 1

IsSuffix(s, t) == Len(s) <= Len(t) /\ s = SubSeq(t, Len(t) - Len(s) + 1, Len(t))

\* the chunks handed to the processor in the step
NewChunks == SubSeq(chunk_results', Len(chunk_results) + 1, Len(chunk_results'))

C37_ChunkSizes ==
    Consuming =>
        \A i \in 1..Len(chunk_results) :
            /\ Len(chunk_results[i]) >= 1
            /\ Len(chunk_results[i]) <=
                   Min(copt.chunk_size, copt.backpressure_buffer_size)

\* a chunk holds events that arrived one after the other, and the chunks
\* follow each other by their oldest event
C37_ChunkOrder ==
    Consuming =>
        /\ \A i \in 1..Len(chunk_results) :
              \A j \in 1..(Len(chunk_results[i]) - 1) :
                  chunk_results[i][j + 1] = chunk_results[i][j] + 1
        /\ \A i \in 1..(Len(chunk_results) - 1) :
              chunk_results[i][1] < chunk_results[i + 1][1]

\* the chunks of a step are cut, in order, from the front of what the buffer
\* holds once the dropped events are gone and the arriving event is appended
C37_FlushStep ==
    (cpc = "running" /\ Len(chunk_results') >= Len(chunk_results)) =>
        IsSuffix(Flat(NewChunks) \o buffer',
                 buffer \o (IF EventArrives THEN <<arrived>> ELSE <<>>))

(***************************************************************************)
(* C37: every chunk consume_sse hands to the processor holds at least one  *)
(* and at most min(chunk_size, backpressure_buffer_size) events, the       *)
(* events of a chunk are consecutive in buffer order, and the chunks are   *)
(* handed over in the order of their oldest event.                         *)
(***************************************************************************)
C37_ChunkShape == [][C37_FlushStep]_vars /\ []C37_ChunkSizes /\ []C37_ChunkOrder

\* a buffer of one under chunks of three: every chunk is a single event
C37_Witness ==
    /\ cpc = "running"
    /\ ConsumeOptionsAre(3, 1, "block")
    /\ chunk_results = <<(<<0>>), (<<1>>), (<<2>>)>>
    /\ buffer = <<3>>

\* the buffer is at least as large as a chunk
Roomy == copt.backpressure_buffer_size >= copt.chunk_size

\* the chunks that cannot be the last one: all of them while the stream
\* runs, all but the last once consume_sse has ended
InnerChunks ==
    IF cpc = "running" THEN 1..Len(chunk_results) ELSE 1..(Len(chunk_results) - 1)

C38_RoomyBuffer ==
    (Consuming /\ Roomy) =>
        /\ Len(buffer) < copt.chunk_size
        /\ ~BufferFull
        /\ dropped_events = 0
        /\ \A i \in InnerChunks : Len(chunk_results[i]) = copt.chunk_size

C38_OnlyWhenTight ==
    (Consuming /\ (dropped_events > 0
                   \/ \E i \in InnerChunks : Len(chunk_results[i]) < copt.chunk_size))
        => copt.backpressure_buffer_size < copt.chunk_size

(***************************************************************************)
(* C38: when backpressure_buffer_size >= chunk_size the buffer is never at *)
(* capacity when an event arrives, because the flush after every append    *)
(* empties it as soon as it holds chunk_size events; dropped_events stays  *)
(* 0 under either policy and every chunk except possibly the last has      *)
(* exactly chunk_size events.  Drops and short forced chunks happen only   *)
(* when backpressure_buffer_size < chunk_size.                             *)
(***************************************************************************)
C38_NoPressureWhenRoomy == C38_RoomyBuffer /\ C38_OnlyWhenTight

\* a buffer of three under chunks of two: two full chunks, a short last one
C38_Witness ==
    /\ cpc = "returned"
    /\ ConsumeOptionsAre(2, 3, "drop_oldest")
    /\ chunk_results = <<(<<0, 1>>), (<<2, 3>>), (<<4>>)>>
    /\ dropped_events = 0

\* stream_sse raises while consume_sse iterates over it
StreamRaises == cpc = "running" /\ cpc' = "raised"

C39_RaiseStep ==
    StreamRaises =>
        /\ NewEntries # <<>>
        /\ Last(trace').op = "raise"
        /\ Last(trace').error \in env.open_errors
        /\ buffer' = buffer
        /\ chunk_results' = chunk_results
        /\ chunks_processed' = chunks_processed
        /\ processed_events' = processed_events
        /\ dropped_events' = dropped_events

\* after the exception nothing happens: no flush, no summary
C39_NothingFollows == cpc = "raised" => vars' = vars

(***************************************************************************)
(* C39: when stream_sse raises while consume_sse iterates over it, the     *)
(* exception propagates out of consume_sse as it is: there is no final     *)
(* flush and no summary, the events still in the buffer are never handed   *)
(* to the processor, and the chunks already processed stay processed.      *)
(***************************************************************************)
C39_StreamErrorPropagates == [][C39_RaiseStep /\ C39_NothingFollows]_vars

\* a chunk was processed, an event is buffered, then the stream raised
C39_Witness ==
    /\ cpc = "raised"
    /\ ConsumeOptionsAre(2, 3, "block")
    /\ chunk_results = <<(<<0, 1>>)>>
    /\ buffer = <<2>>

\* the walk follows the token at next_page_path
NextLinkMode == connector.pagination.next_page_path # <<>>

\* a page was received in the step: a first response that has the data
\* path, or any follow-up page
PageReceived ==
    /\ rpc \in {"fetch_attempt", "paginate"}
    /\ \E i \in NewIndices : "body" \in DOMAIN trace'[i]
    /\ IsDict(Last(BodiesOf(trace')))
    /\ rpc = "fetch_attempt" => "i" \in DOMAIN Last(BodiesOf(trace')).map

\* the token of the page just received is a non-empty string or a non-zero
\* integer
TokenContinues ==
    LET m == Last(BodiesOf(trace')).map
    IN /\ "n" \in DOMAIN m
       /\ m["n"].kind \in {"str", "int"}
       /\ m["n"].val # 0

\* the walk goes on exactly when the page has such a token, however many
\* pages were fetched, and it ends when the request of a page fails
C40_Step ==
    /\ (NextLinkMode /\ PageReceived) =>
          IF TokenContinues THEN rpc' = "paginate" ELSE rpc' = "returned"
    /\ (NextLinkMode /\ PageFailure) => rpc' = "returned"

(***************************************************************************)
(* C40: in next-link mode the pagination walk is not capped by max_pages:  *)
(* it goes on for as long as each page fetched yields a non-empty string   *)
(* or a non-zero integer token, and it stops only at the first page whose  *)
(* token is missing, of another type, empty or zero, or whose request      *)
(* fails.                                                                  *)
(***************************************************************************)
C40_UncappedWalk == [][TraceGrows /\ C40_Step]_vars

====
